---- MODULE Spec2Model ----
(***************************************************************************)
(* A state-machine model of the SonicMind AudioEngine (the FINAL, full-mix *)
(* tuned engine): the per-tick analysis chain (bass stability window,      *)
(* template chord classifier, chord hysteresis, timeline event log, energy *)
(* onset BPM estimator), the timeline override, the source loads that      *)
(* reset the analysis state, and the playback operations that move the     *)
(* media clock.                                                            *)
(*                                                                         *)
(* Time.  performance.now() is the wall clock, in milliseconds.  The       *)
(* AudioContext clock and the media clock are in seconds in the source and *)
(* in milliseconds here (1 s = 1000), so every time constant of the source *)
(* is an integer.  Time passes between two ticks: a tick carries the       *)
(* amount dt by which both real-time clocks advanced since the last        *)
(* operation.  All performance.now() reads of one tick return one value.   *)
(*                                                                         *)
(* Front end.  The spectral stages ahead of the classifier (whitening,     *)
(* harmonic mask, chroma folding, smoothing, harmonic product spectrum)    *)
(* are floating point; a frame enters the model as what they hand on: the  *)
(* raw chroma of the main spectrum, the bass pitch class the HPS picks (or *)
(* none), and the frame energy.  What these stages guarantee on zero input *)
(* is kept: see KeyInvariantChromaSmoothing and SilentFrame.               *)
(***************************************************************************)
EXTENDS Integers, Sequences, FiniteSets, TLC

(* ------------------------------ bounds ------------------------------ *)

\* Spec runs for at most this many ticks of 160 ms of wall time.
MaxTicks == 6

\* SpecBass runs for at most this many hundreds of milliseconds of wall time.
MaxBassTime == 16

\* SpecSilent runs for at most this many hundreds of milliseconds.
MaxSilentTime == 10

\* The event log holds at most this many events; a tick is not taken beyond.
MaxEvents == 3

\* SpecClassify runs for this many ticks of 300 ms.
MaxClassifyTicks == 3

\* SpecBpm: the first WarmSamples ticks are silent, and the run ends when the
\* energy ring holds MaxBpmSamples samples.
WarmSamples == 19
MaxBpmSamples == 24

\* SpecRing runs for this many ticks of 20 ms, with at most this many energy
\* spikes in the ring at a time.
MaxRingTicks == 93
MaxRingSpikes == 1

\* SpecConfig runs for at most this many ticks of 160 ms.
MaxConfigTicks == 3

(* ------------------------- program constants ------------------------ *)

\* chordStableMs, bassStableMs: the constructor's defaults.
StableMs == 320
BassStableMs == 280
\* The literal of _applyBassStability's release test.
BassReleaseMs == 900
\* _energyHistorySize, and the literals of _estimateBPMFromEnergy.
EnergyHistorySize == 90
MinEnergySamples == 20
OnsetStdK == 2
RefractoryMs == 120
OnsetWindowMs == 8000
MinOnsets == 4
MinIntervals == 3
IntervalLoMs == 200
IntervalHiMs == 2000
BpmMin == 70
BpmMax == 180
\* _lastOnsetTime = -999 (seconds).
InitLastOnsetMs == -999000

\* this.PC; pitch class p is PC[p + 1].
PC == <<"C", "C#", "D", "D#", "E", "F", "F#", "G", "G#", "A", "A#", "B">>

\* The sentinel of lastChord and _candidateChord: the em dash U+2014, written
\* here in ASCII.
Sentinel == "-"

\* null / undefined, for a text.
None == "none"
\* null for a pitch class (_bassPc, _bassCandidate) and for the bpm returned.
NoPc == -1
NoBpm == -1

(* ---------------------------- classifier ---------------------------- *)

\* The keys of `shapes`, in insertion order (the order Object.entries gives).
Qualities == <<"maj", "min", "maj7", "min7", "dom7", "dim">>

Intervals(q) ==
  CASE q = "maj"  -> {0, 4, 7}
    [] q = "min"  -> {0, 3, 7}
    [] q = "maj7" -> {0, 4, 7, 11}
    [] q = "min7" -> {0, 3, 7, 10}
    [] q = "dom7" -> {0, 4, 7, 10}
    [] q = "dim"  -> {0, 3, 6}

\* The template table: root outer, quality inner.  A template's vector is 1 on
\* `tones` and 0 elsewhere, divided by its norm sqrt(Cardinality(tones)).
Templates ==
  [k \in 1..72 |->
     LET root == (k - 1) \div 6
         quality == Qualities[((k - 1) % 6) + 1]
     IN  [root |-> root, quality |-> quality,
          tones |-> {(root + itv) % 12 : itv \in Intervals(quality)}]]

RECURSIVE SumOver(_, _)
SumOver(v, S) ==
  IF S = {} THEN 0
  ELSE LET i == CHOOSE x \in S : TRUE IN v[i] + SumOver(v, S \ {i})

\* A chroma vector is a direction: 12 naturals.  The source holds it divided by
\* its L2 norm (or all zero); Norm2 is the square of that norm.
Zero12 == [i \in 0..11 |-> 0]
Norm2(v) == SumOver([i \in 0..11 |-> v[i] * v[i]], 0..11)

\* _dot12(chroma, t.vec) = Hits / (sqrt(Norm2(chroma)) * sqrt(|tones|)), and 0 for
\* the zero chroma.  Scores are compared through their squares (all are >= 0).
Hits(chroma, k) == SumOver(chroma, Templates[k].tones)
ScoreGreater(chroma, k, b) ==
  LET hk == Hits(chroma, k)
      hb == Hits(chroma, b)
  IN  hk * hk * Cardinality(Templates[b].tones)
        > hb * hb * Cardinality(Templates[k].tones)

\* A faulty loop in which a template of equal score replaces the best, so the
\* last of several equal templates wins; C13 must reject it.
RECURSIVE BestFromLastWins(_, _, _)
BestFromLastWins(chroma, b, k) ==
  IF k > 72 THEN b
  ELSE IF b = 0 \/ ~ScoreGreater(chroma, b, k)
  THEN BestFromLastWins(chroma, k, k + 1)
  ELSE BestFromLastWins(chroma, b, k + 1)

\* The loop of _detectChord from template k on: b is the index of the best
\* template so far, 0 for the initial best, whose score -1 every score exceeds.
\* Template k replaces the best only when its score is strictly greater.
RECURSIVE BestFrom(_, _, _)
BestFrom(chroma, b, k) ==
  IF k > 72 THEN b
  ELSE IF b = 0 \/ ScoreGreater(chroma, k, b)
  THEN BestFrom(chroma, k, k + 1)
  ELSE BestFrom(chroma, b, k + 1)

BestTemplate(chroma) == BestFrom(chroma, 0, 1)

\* floor(sqrt(x)) for 0 <= x <= 10^6.
ISqrt(x) == CHOOSE r \in 0..1000 : r * r <= x /\ x < (r + 1) * (r + 1)

\* best.score in thousandths (rounded down).
Score1000(chroma, k) ==
  IF Norm2(chroma) = 0 THEN 0
  ELSE LET h == Hits(chroma, k)
       IN  ISqrt((1000000 * h * h)
                   \div (Norm2(chroma) * Cardinality(Templates[k].tones)))

\* A faulty clamp that returns its argument; C27 must reject it.
Clamp01None(x1000) == x1000

\* _clamp01, in thousandths.
Clamp01(x1000) ==
  IF x1000 < 0 THEN 0 ELSE IF x1000 > 1000 THEN 1000 ELSE x1000

\* (best.score - 0.20) / 0.80, clamped, in thousandths.
Confidence1000(score1000) == Clamp01(((score1000 - 200) * 1000) \div 800)

FormatChord(rootPc, quality) ==
  LET root == PC[rootPc + 1]
  IN  CASE quality = "maj"  -> root
        [] quality = "min"  -> root \o "m"
        [] quality = "maj7" -> root \o "maj7"
        [] quality = "min7" -> root \o "m7"
        [] quality = "dom7" -> root \o "7"
        [] quality = "dim"  -> root \o "dim"
        [] OTHER -> root

\* The chroma vector with weight 1 on each pitch class of S.
Tones(S) == [i \in 0..11 |-> IF i \in S THEN 1 ELSE 0]

\* The chroma directions a frame can carry: silence, a C major triad, an
\* A minor triad.
ChromaSet == {Zero12, Tones({0, 4, 7}), Tones({9, 0, 4})}

\* The chroma directions SpecClassify probes the classifier with: the tone set
\* of each of the 72 templates, and directions on which several templates
\* share the best score (one tone; two tones of several triads).
TemplateChromas == {Tones(Templates[k].tones) : k \in 1..72}
TieChromas == {Tones({0}), Tones({0, 4}), Tones({0, 3}), Tones({4, 7}), Tones({11, 2})}
ClassifierChromas == TemplateChromas \cup TieChromas

\* The outcome of the template loop for each chroma of the model, evaluated
\* once: <<chroma, best template, best.score in thousandths>>.
Classified ==
  {<<c, BestTemplate(c), Score1000(c, BestTemplate(c))>> :
     c \in ChromaSet \cup ClassifierChromas}

Best(chroma) == CHOOSE p \in Classified : p[1] = chroma

\* A faulty labelling that appends the slash whenever a stable bass is present,
\* the chord root included; C12 must reject it.
DetectChordAlwaysSlash(chroma, bassPc) ==
  LET best == Templates[Best(chroma)[2]]
      name == FormatChord(best.root, best.quality)
  IN  [chord |-> IF bassPc # NoPc
                 THEN name \o "/" \o PC[bassPc + 1]
                 ELSE name,
       confidence |-> Confidence1000(Best(chroma)[3])]

\* A faulty variant that never writes the bass; C24 must reject it.
DetectChordNeverSlash(chroma, bassPc) ==
  LET best == Templates[Best(chroma)[2]]
  IN  [chord |-> FormatChord(best.root, best.quality),
       confidence |-> Confidence1000(Best(chroma)[3])]

DetectChord(chroma, bassPc) ==
  LET best == Templates[Best(chroma)[2]]
      name == FormatChord(best.root, best.quality)
  IN  [chord |-> IF bassPc # NoPc /\ bassPc # best.root
                 THEN name \o "/" \o PC[bassPc + 1]
                 ELSE name,
       confidence |-> Confidence1000(Best(chroma)[3])]

(* ------------------------------ smoother ---------------------------- *)

\* The direction of _chromaEMA after a frame.  For a zero raw chroma the
\* smoothed frame tmp is zero, the EMA is scaled by (1 - alpha) and then
\* renormalised: its direction is kept, and a zero EMA stays zero.  For a
\* non-zero raw chroma the EMA turns toward the frame; the frame names the
\* direction it reaches (chromaIn), which is never zero.
(* ----------------------- kernel and whitener ------------------------ *)

\* The 12-vector x turned by s pitch classes.
Rotate(x, s) == [k \in 0..11 |-> x[(k + s) % 12]]

\* A faulty kernel that does not wrap around the octave; C28 must reject it.
NeighbourKernelNoWrap(chromaIn) ==
  LET at(k) == IF k \in 0..11 THEN chromaIn[k] ELSE 0
  IN  [k \in 0..11 |->
         56 * at(k) + 12 * (at(k - 1) + at(k + 1)) + 10 * (at(k - 2) + at(k + 2))]

\* The circular smoothing that opens _keyInvariantChromaSmoothing, in
\* hundredths: 0.56 on the pitch class, 0.12 on its neighbours, 0.10 on the
\* next ones, all mod 12.
NeighbourKernel(chromaIn) ==
  [k \in 0..11 |->
     56 * chromaIn[k]
       + 12 * (chromaIn[(k + 11) % 12] + chromaIn[(k + 1) % 12])
       + 10 * (chromaIn[(k + 10) % 12] + chromaIn[(k + 2) % 12])]

\* floor(a * 10^d / b) by long division, for a >= 0 and b > 0.
RECURSIVE ScaledDiv(_, _, _)
ScaledDiv(a, b, d) ==
  IF d = 0 THEN a \div b
  ELSE (a \div b) * (10 ^ d) + ScaledDiv((a % b) * 10, b, d - 1)

\* prefix[0..n] of the sequence q, as a sequence of n + 1 entries.
RECURSIVE PrefixSums(_)
PrefixSums(q) ==
  IF q = <<>> THEN <<0>>
  ELSE LET p == PrefixSums(SubSeq(q, 1, Len(q) - 1))
       IN  Append(p, p[Len(p)] + q[Len(q)])

RECURSIVE SeqMax(_)
SeqMax(q) ==
  IF q = <<>> THEN 0
  ELSE LET m == SeqMax(Tail(q)) IN IF Head(q) > m THEN Head(q) ELSE m

\* _whitenEps, in millionths.
WhitenEps == 1

\* _computeWhitenedSpectrum on the bytes byteData: the squared magnitudes, the
\* quotient by the mean over the clamped window plus eps, the division by the
\* maximum if that is positive.  Values in millionths, rounded down.
ComputeWhitenedSpectrum(byteData, halfWindowBins) ==
  LET n == Len(byteData)
      mag == [i \in 1..n |-> ScaledDiv(byteData[i] * byteData[i], 255 * 255, 6)]
      prefix == PrefixSums(mag)
      lo(i) == IF i - 1 - halfWindowBins < 0 THEN 0 ELSE i - 1 - halfWindowBins
      hi(i) == IF i - 1 + halfWindowBins > n - 1 THEN n - 1
               ELSE i - 1 + halfWindowBins
      env(i) == (prefix[hi(i) + 2] - prefix[lo(i) + 1]) \div (hi(i) - lo(i) + 1)
      out == [i \in 1..n |-> ScaledDiv(mag[i], env(i) + WhitenEps, 6)]
      max == SeqMax(out)
  IN  IF max > 0 THEN [i \in 1..n |-> ScaledDiv(out[i], max, 6)] ELSE out

KeyInvariantChromaSmoothing(ema, chromaIn) ==
  IF chromaIn = Zero12 THEN ema ELSE chromaIn

(* ---------------------------- bass tracker -------------------------- *)

\* Faulty variants of the bass tracker, which C9 and C10 must reject: one
\* promotes a repeated candidate without the dwell, one releases after 800 ms.
ApplyBassStabilityNoDwell(b, pc, now) ==
  IF pc = NoPc
  THEN IF b.bassPc # NoPc /\ now - b.bassCandidateSince > BassReleaseMs
       THEN [b EXCEPT !.bassPc = NoPc]
       ELSE b
  ELSE IF pc = b.bassPc
  THEN [b EXCEPT !.bassCandidate = pc, !.bassCandidateSince = now]
  ELSE IF pc # b.bassCandidate
  THEN [b EXCEPT !.bassCandidate = pc, !.bassCandidateSince = now]
  ELSE [b EXCEPT !.bassPc = b.bassCandidate]

ApplyBassStabilityRelease800(b, pc, now) ==
  IF pc = NoPc
  THEN IF b.bassPc # NoPc /\ now - b.bassCandidateSince > 800
       THEN [b EXCEPT !.bassPc = NoPc]
       ELSE b
  ELSE IF pc = b.bassPc
  THEN [b EXCEPT !.bassCandidate = pc, !.bassCandidateSince = now]
  ELSE IF pc # b.bassCandidate
  THEN [b EXCEPT !.bassCandidate = pc, !.bassCandidateSince = now]
  ELSE IF now - b.bassCandidateSince >= BassStableMs
  THEN [b EXCEPT !.bassPc = b.bassCandidate]
  ELSE b

\* _applyBassStability on b = [bassPc, bassCandidate, bassCandidateSince]; the
\* value returned is the bassPc of the result.
ApplyBassStability(b, pc, now) ==
  IF pc = NoPc
  THEN IF b.bassPc # NoPc /\ now - b.bassCandidateSince > BassReleaseMs
       THEN [b EXCEPT !.bassPc = NoPc]
       ELSE b
  ELSE IF pc = b.bassPc
  THEN [b EXCEPT !.bassCandidate = pc, !.bassCandidateSince = now]
  ELSE IF pc # b.bassCandidate
  THEN [b EXCEPT !.bassCandidate = pc, !.bassCandidateSince = now]
  ELSE IF now - b.bassCandidateSince >= BassStableMs
  THEN [b EXCEPT !.bassPc = b.bassCandidate]
  ELSE b

(* -------------------------- chord hysteresis ------------------------ *)

\* A faulty event constructor that stamps every event with media time 0; C8
\* must reject it.
NewEventAtZero(t, chord) ==
  [t |-> 0, chord |-> chord, conf |-> 1, overridden |-> FALSE, userChord |-> None]

\* A faulty variant that adds the dwell to the event's time; C25 must reject
\* it.
NewEventAfterDwell(t, chord) ==
  [t |-> t + StableMs, chord |-> chord, conf |-> 1, overridden |-> FALSE,
   userChord |-> None]

NewEvent(t, chord) ==
  [t |-> t, chord |-> chord, conf |-> 1, overridden |-> FALSE, userChord |-> None]

\* this.events[this.events.length - 1]?.chord
LastEventChord(evs) == IF evs = <<>> THEN None ELSE evs[Len(evs)].chord

\* Faulty variants of the hysteresis.  NoRestart keeps the timer of the old
\* candidate when a new candidate arrives (C2 must reject it); Strict asks for
\* more than chordStableMs (C3); ReplaceLog overwrites the log with the new
\* event (C5).
ApplyChordHysteresisNoRestart(h, chordName, now, t) ==
  IF chordName = h.lastChord
  THEN [h EXCEPT !.candidateChord = chordName, !.candidateSince = now]
  ELSE IF chordName # h.candidateChord
  THEN [h EXCEPT !.candidateChord = chordName]
  ELSE IF now - h.candidateSince >= StableMs
  THEN [h EXCEPT !.lastChord = h.candidateChord,
                 !.events = Append(h.events, [t |-> t, chord |-> h.candidateChord,
                                              conf |-> 1, overridden |-> FALSE,
                                              userChord |-> None])]
  ELSE h

ApplyChordHysteresisStrict(h, chordName, now, t) ==
  IF chordName = h.lastChord
  THEN [h EXCEPT !.candidateChord = chordName, !.candidateSince = now]
  ELSE IF chordName # h.candidateChord
  THEN [h EXCEPT !.candidateChord = chordName, !.candidateSince = now]
  ELSE IF now - h.candidateSince > StableMs
  THEN [h EXCEPT !.lastChord = h.candidateChord,
                 !.events = Append(h.events, [t |-> t, chord |-> h.candidateChord,
                                              conf |-> 1, overridden |-> FALSE,
                                              userChord |-> None])]
  ELSE h

ApplyChordHysteresisReplaceLog(h, chordName, now, t) ==
  IF chordName = h.lastChord
  THEN [h EXCEPT !.candidateChord = chordName, !.candidateSince = now]
  ELSE IF chordName # h.candidateChord
  THEN [h EXCEPT !.candidateChord = chordName, !.candidateSince = now]
  ELSE IF now - h.candidateSince >= StableMs
  THEN [h EXCEPT !.lastChord = h.candidateChord,
                 !.events = <<[t |-> t, chord |-> h.candidateChord,
                               conf |-> 1, overridden |-> FALSE,
                               userChord |-> None]>>]
  ELSE h

\* A faulty hysteresis that promotes the candidate without recording it; C35
\* must reject it.
ApplyChordHysteresisNoLog(h, chordName, now, t) ==
  IF chordName = h.lastChord
  THEN [h EXCEPT !.candidateChord = chordName, !.candidateSince = now]
  ELSE IF chordName # h.candidateChord
  THEN [h EXCEPT !.candidateChord = chordName, !.candidateSince = now]
  ELSE IF now - h.candidateSince >= StableMs
  THEN [h EXCEPT !.lastChord = h.candidateChord]
  ELSE h

\* _applyChordHysteresis on h = [lastChord, candidateChord, candidateSince,
\* events]; t is this.currentTime.  The value returned is the lastChord of the
\* result.
ApplyChordHysteresis(h, chordName, now, t) ==
  IF chordName = h.lastChord
  THEN [h EXCEPT !.candidateChord = chordName, !.candidateSince = now]
  ELSE IF chordName # h.candidateChord
  THEN [h EXCEPT !.candidateChord = chordName, !.candidateSince = now]
  ELSE IF now - h.candidateSince >= StableMs
  THEN [h EXCEPT !.lastChord = h.candidateChord,
                 !.events = IF LastEventChord(h.events) # h.candidateChord
                            THEN Append(h.events, NewEvent(t, h.candidateChord))
                            ELSE h.events]
  ELSE h

\* Faulty variants of the override: WritesChord also replaces the detected
\* chord with the user text (C4 must reject it); OneBased reads the index as
\* 1-based (C7).
OverrideEventAtIndexWritesChord(evs, index, chordText) ==
  IF index < 0 \/ index >= Len(evs) THEN evs
  ELSE [evs EXCEPT ![index + 1].overridden = TRUE,
                   ![index + 1].userChord = chordText,
                   ![index + 1].chord = chordText]

OverrideEventAtIndexOneBased(evs, index, chordText) ==
  IF index < 1 \/ index > Len(evs) THEN evs
  ELSE [evs EXCEPT ![index].overridden = TRUE,
                   ![index].userChord = chordText]

\* overrideEventAtIndex: events[index] is undefined outside 0..length-1.
OverrideEventAtIndex(evs, index, chordText) ==
  IF index < 0 \/ index >= Len(evs) THEN evs
  ELSE [evs EXCEPT ![index + 1].overridden = TRUE,
                   ![index + 1].userChord = chordText]

(* --------------------------- BPM estimator -------------------------- *)

RECURSIVE SeqSum(_)
SeqSum(q) == IF q = <<>> THEN 0 ELSE Head(q) + SeqSum(Tail(q))

RECURSIVE SeqSumSq(_)
SeqSumSq(q) == IF q = <<>> THEN 0 ELSE Head(q) * Head(q) + SeqSumSq(Tail(q))

\* energy > mean + 2.0 * std over the ring, without the square root: with
\* n = Len, mean = sum / n and std = sqrt(n * sumsq - sum^2) / n.
IsOnset(energy, hist) ==
  LET n == Len(hist)
      x == n * energy - SeqSum(hist)
      d == n * SeqSumSq(hist) - SeqSum(hist) * SeqSum(hist)
  IN  x > 0 /\ x * x > OnsetStdK * OnsetStdK * d

\* A faulty trim that drops nothing; the corrected C17 must reject it.
TrimOnsetsNone(q, nowS) == q

\* while (onsets.length && nowS - onsets[0] > 8) onsets.shift()
RECURSIVE TrimOnsets(_, _)
TrimOnsets(q, nowS) ==
  IF q # <<>> /\ nowS - Head(q) > OnsetWindowMs THEN TrimOnsets(Tail(q), nowS)
  ELSE q

\* A faulty filter that keeps every inter-onset interval; C15 must reject it.
RECURSIVE KeptIntervalsAll(_)
KeptIntervalsAll(q) ==
  IF Len(q) < 2 THEN <<>>
  ELSE <<q[2] - q[1]>> \o KeptIntervalsAll(Tail(q))

\* The inter-onset intervals kept: 0.20 < dt < 2.0.
RECURSIVE KeptIntervals(_)
KeptIntervals(q) ==
  IF Len(q) < 2 THEN <<>>
  ELSE LET dt == q[2] - q[1]
       IN  (IF dt > IntervalLoMs /\ dt < IntervalHiMs THEN <<dt>> ELSE <<>>)
             \o KeptIntervals(Tail(q))

RECURSIVE Insert(_, _)
Insert(x, q) ==
  IF q = <<>> THEN <<x>>
  ELSE IF x <= Head(q) THEN <<x>> \o q
  ELSE <<Head(q)>> \o Insert(x, Tail(q))

\* intervals.sort((a, b) => a - b)
RECURSIVE Sorted(_)
Sorted(q) == IF q = <<>> THEN <<>> ELSE Insert(Head(q), Sorted(Tail(q)))

\* A faulty fold that never doubles; C26 must reject it.
FoldUpNone(num, den) == num

\* bpm = num / den.  while (bpm < 70) bpm *= 2
RECURSIVE FoldUp(_, _)
FoldUp(num, den) == IF num < BpmMin * den THEN FoldUp(2 * num, den) ELSE num

\* A faulty fold that never halves; C14 must reject it.
FoldDownNone(num, den) == den

\* while (bpm > 180) bpm /= 2
RECURSIVE FoldDown(_, _)
FoldDown(num, den) == IF num > BpmMax * den THEN FoldDown(num, 2 * den) ELSE den

\* Math.round(num / den) for num, den > 0.
Round(num, den) == (2 * num + den) \div (2 * den)

\* 60 / median folded into [70, 180] and rounded; median in milliseconds.
BpmOfMedian(median) ==
  LET num == FoldUp(60000, median)
      den == FoldDown(num, median)
  IN  Round(num, den)

\* Faulty variants of the estimator: NoRefractory records every frame above the
\* threshold (C16 must reject it); DropsNewest keeps the ring at its size by
\* discarding the sample just pushed (C18).
EstimateBPMFromEnergyNoRefractory(e, energy, nowS) ==
  LET pushed == Append(e.energyHistory, energy)
      hist == IF Len(pushed) > EnergyHistorySize THEN Tail(pushed) ELSE pushed
  IN  IF Len(hist) < MinEnergySamples
      THEN [energyHistory |-> hist, onsets |-> e.onsets,
            lastOnsetTime |-> e.lastOnsetTime, bpm |-> NoBpm]
      ELSE
        LET record == IsOnset(energy, hist)
            onsets == IF record THEN TrimOnsets(Append(e.onsets, nowS), nowS)
                      ELSE e.onsets
            last == IF record THEN nowS ELSE e.lastOnsetTime
            intervals == Sorted(KeptIntervals(onsets))
        IN  [energyHistory |-> hist, onsets |-> onsets, lastOnsetTime |-> last,
             bpm |-> IF Len(onsets) < MinOnsets THEN NoBpm
                     ELSE IF Len(intervals) < MinIntervals THEN NoBpm
                     ELSE BpmOfMedian(intervals[(Len(intervals) \div 2) + 1])]

EstimateBPMFromEnergyDropsNewest(e, energy, nowS) ==
  LET pushed == Append(e.energyHistory, energy)
      hist == IF Len(pushed) > EnergyHistorySize
              THEN SubSeq(pushed, 1, EnergyHistorySize) ELSE pushed
  IN  IF Len(hist) < MinEnergySamples
      THEN [energyHistory |-> hist, onsets |-> e.onsets,
            lastOnsetTime |-> e.lastOnsetTime, bpm |-> NoBpm]
      ELSE
        LET record == IsOnset(energy, hist) /\ nowS - e.lastOnsetTime > RefractoryMs
            onsets == IF record THEN TrimOnsets(Append(e.onsets, nowS), nowS)
                      ELSE e.onsets
            last == IF record THEN nowS ELSE e.lastOnsetTime
            intervals == Sorted(KeptIntervals(onsets))
        IN  [energyHistory |-> hist, onsets |-> onsets, lastOnsetTime |-> last,
             bpm |-> IF Len(onsets) < MinOnsets THEN NoBpm
                     ELSE IF Len(intervals) < MinIntervals THEN NoBpm
                     ELSE BpmOfMedian(intervals[(Len(intervals) \div 2) + 1])]

\* _estimateBPMFromEnergy on e = [energyHistory, onsets, lastOnsetTime]; nowS is
\* this.currentTime.  The result carries the value returned as bpm.
EstimateBPMFromEnergy(e, energy, nowS) ==
  LET pushed == Append(e.energyHistory, energy)
      hist == IF Len(pushed) > EnergyHistorySize THEN Tail(pushed) ELSE pushed
  IN  IF Len(hist) < MinEnergySamples
      THEN [energyHistory |-> hist, onsets |-> e.onsets,
            lastOnsetTime |-> e.lastOnsetTime, bpm |-> NoBpm]
      ELSE
        LET record == IsOnset(energy, hist) /\ nowS - e.lastOnsetTime > RefractoryMs
            onsets == IF record THEN TrimOnsets(Append(e.onsets, nowS), nowS)
                      ELSE e.onsets
            last == IF record THEN nowS ELSE e.lastOnsetTime
            intervals == Sorted(KeptIntervals(onsets))
        IN  [energyHistory |-> hist, onsets |-> onsets, lastOnsetTime |-> last,
             bpm |-> IF Len(onsets) < MinOnsets THEN NoBpm
                     ELSE IF Len(intervals) < MinIntervals THEN NoBpm
                     ELSE BpmOfMedian(intervals[(Len(intervals) \div 2) + 1])]

(* ------------------------------- state ------------------------------ *)

VARIABLES
  wall,                 \* performance.now(), and the AudioContext clock
  mode,                 \* "none": init() not run; "buffer": this.buffer set;
                        \* "stream": mediaEl.src set and this.buffer null
  bufferPlaying,        \* _bufferPlaying
  bufferOffsetSec,      \* _bufferOffsetSec
  bufferStartCtxTime,   \* _bufferStartCtxTime
  bufferPlaybackRate,   \* _bufferPlaybackRate, in percent
  mediaPaused,          \* mediaEl.paused
  mediaCurrentTime,     \* mediaEl.currentTime
  mediaPlaybackRate,    \* mediaEl.playbackRate, in percent
  bufferSource,         \* whether this.bufferSource holds a source, which is
                        \* then one that was started and not stopped
  endedPending,         \* the stopped buffer sources whose ended event is
                        \* queued and not yet dispatched to src.onended
  chromaEMA,            \* _chromaEMA
  bassPc, bassCandidate, bassCandidateSince,
  lastChord, candidateChord, candidateSince,
  events,
  energyHistory, onsets, lastOnsetTime,
  result,               \* what the last tick() returned
  run,                  \* the classifier labels since the last reset: the
                        \* label of the current unbroken run, the wall time of
                        \* the run's first tick, lastChord before that tick
  bassSeen,             \* the bass detections since the last reset: whether
                        \* there was one, and the wall time of the last
  config,               \* the fields the constructor sets from its options
                        \* and its tuning literals
  focusFilter,          \* focusFilter.type, None before init()
  fnArg, fnOut,         \* the argument and the value of a call of one of the
                        \* engine's pure helpers (SpecKernel, SpecWhiten)
  timelineEvents,       \* app.js: the display timeline, entries
                        \* [start, end, chord, overridden, userChord]
  lastStableChord,      \* app.js: the last chord the loop put on the timeline
  swCache,              \* sw.js: the requests stored in the cache
  swLast                \* sw.js: how the last fetch event was answered

playback == <<mode, bufferPlaying, bufferOffsetSec, bufferStartCtxTime,
              bufferPlaybackRate, mediaPaused, mediaCurrentTime,
              mediaPlaybackRate, bufferSource, endedPending>>
bass == <<bassPc, bassCandidate, bassCandidateSince>>
hysteresis == <<lastChord, candidateChord, candidateSince>>
settings == <<config, focusFilter>>
probe == <<fnArg, fnOut>>
app == <<timelineEvents, lastStableChord>>
sw == <<swCache, swLast>>
bpmState == <<energyHistory, onsets, lastOnsetTime>>
analysis == <<chromaEMA, bass, hysteresis, events, bpmState>>
vars == <<wall, playback, analysis, result, run, bassSeen, settings, probe,
          app, sw>>

\* get currentTime, with the AudioContext clock at ctxTime and the media
\* element's clock at mct.
CurrentTimeAt(ctxTime, mct) ==
  IF mode = "buffer"
  THEN IF ~bufferPlaying THEN bufferOffsetSec
       ELSE bufferOffsetSec
              + ((ctxTime - bufferStartCtxTime) * bufferPlaybackRate) \div 100
  ELSE IF mode = "stream" THEN mct
  ELSE 0

CurrentTime == CurrentTimeAt(wall, mediaCurrentTime)

\* A faulty default result that reports full confidence; C22 must reject it.
DefaultResultCertain == [chord |-> Sentinel, confidence |-> 1000, bpm |-> NoBpm]

DefaultResult == [chord |-> Sentinel, confidence |-> 0, bpm |-> NoBpm]

NoRun == [label |-> None, start |-> 0, last |-> None]

NoBassSeen == [any |-> FALSE, at |-> 0]

\* The options of the constructor at their defaults.
DefaultOptions ==
  [fftSize |-> 4096, chromaTimeConstantMs |-> 220,
   chordStableMs |-> StableMs, bassStableMs |-> BassStableMs]

\* The configuration fields the constructor assigns: the options as given (no
\* test is made on them), and the tuning literals.
Construct(options) ==
  [fftSize |-> options.fftSize,
   chromaTC |-> options.chromaTimeConstantMs,
   stableMs |-> options.chordStableMs,
   bassStableMs |-> options.bassStableMs,
   whitenWindow |-> 25, fMin |-> 55, fMax |-> 5500, harmonicTC |-> 110,
   bassMinHz |-> 30, bassMaxHz |-> 280, hpsHarmonics |-> 4,
   energyHistorySize |-> EnergyHistorySize,
   templates |-> Templates]

\* The state new AudioEngine(options) leaves.
Constructed(options) ==
  /\ config = Construct(options)
  /\ focusFilter = None
  /\ bassSeen = NoBassSeen
  /\ wall = 0
  /\ mode = "none"
  /\ bufferPlaying = FALSE
  /\ bufferOffsetSec = 0
  /\ bufferStartCtxTime = 0
  /\ bufferPlaybackRate = 100
  /\ mediaPaused = TRUE
  /\ mediaCurrentTime = 0
  /\ mediaPlaybackRate = 100
  /\ bufferSource = FALSE
  /\ endedPending = 0
  /\ chromaEMA = Zero12
  /\ bassPc = NoPc
  /\ bassCandidate = NoPc
  /\ bassCandidateSince = 0
  /\ lastChord = Sentinel
  /\ candidateChord = Sentinel
  /\ candidateSince = 0
  /\ events = <<>>
  /\ energyHistory = <<>>
  /\ onsets = <<>>
  /\ lastOnsetTime = InitLastOnsetMs
  /\ result = DefaultResult
  /\ run = NoRun

\* No helper has been called.
NoCall == fnArg = <<>> /\ fnOut = <<>>

\* app.js as loaded: an empty display timeline.
PageLoaded == timelineEvents = <<>> /\ lastStableChord = Sentinel

\* No service worker is installed.
NoWorker == swCache = {} /\ swLast = <<>>

\* The state new AudioEngine() leaves.
Init == Constructed(DefaultOptions) /\ NoCall /\ PageLoaded /\ NoWorker

(* ------------------------------ actions ----------------------------- *)

\* A faulty reset that also puts the configuration back to the defaults; C20
\* must reject it.
ResetAnalysisStateDefaults(now) ==
  /\ lastChord' = Sentinel
  /\ candidateChord' = Sentinel
  /\ candidateSince' = 0
  /\ bassPc' = NoPc
  /\ bassCandidate' = NoPc
  /\ bassCandidateSince' = now
  /\ events' = <<>>
  /\ energyHistory' = <<>>
  /\ onsets' = <<>>
  /\ lastOnsetTime' = InitLastOnsetMs
  /\ chromaEMA' = Zero12
  /\ run' = NoRun
  /\ bassSeen' = NoBassSeen
  /\ config' = [fftSize |-> 4096, chromaTC |-> 220, stableMs |-> StableMs,
                bassStableMs |-> BassStableMs, whitenWindow |-> 25, fMin |-> 55,
                fMax |-> 5500, harmonicTC |-> 110, bassMinHz |-> 30,
                bassMaxHz |-> 280, hpsHarmonics |-> 4,
                energyHistorySize |-> EnergyHistorySize, templates |-> Templates]

\* A faulty reset that keeps the event log; C21 must reject it.
ResetAnalysisStateKeepsLog(now) ==
  /\ UNCHANGED <<config, events>>
  /\ lastChord' = Sentinel
  /\ candidateChord' = Sentinel
  /\ candidateSince' = 0
  /\ bassPc' = NoPc
  /\ bassCandidate' = NoPc
  /\ bassCandidateSince' = now
  /\ energyHistory' = <<>>
  /\ onsets' = <<>>
  /\ lastOnsetTime' = InitLastOnsetMs
  /\ chromaEMA' = Zero12
  /\ run' = NoRun
  /\ bassSeen' = NoBassSeen

\* _resetAnalysisState, at wall time `now`.  It assigns no configuration field.
ResetAnalysisState(now) ==
  /\ UNCHANGED config
  /\ lastChord' = Sentinel
  /\ candidateChord' = Sentinel
  /\ candidateSince' = 0
  /\ bassPc' = NoPc
  /\ bassCandidate' = NoPc
  /\ bassCandidateSince' = now
  /\ events' = <<>>
  /\ energyHistory' = <<>>
  /\ onsets' = <<>>
  /\ lastOnsetTime' = InitLastOnsetMs
  /\ chromaEMA' = Zero12
  /\ run' = NoRun
  /\ bassSeen' = NoBassSeen

\* tick(), dt milliseconds after the last operation, on frame f.
EngineTick(dt, f) ==
  /\ wall' = wall + dt
  /\ UNCHANGED <<settings, probe, sw>>
  /\ IF mode = "none"
     THEN /\ result' = DefaultResult
          /\ UNCHANGED <<playback, analysis, run, bassSeen>>
     ELSE LET now == wall + dt
              mct == IF mode = "stream" /\ ~mediaPaused
                     THEN mediaCurrentTime + (dt * mediaPlaybackRate) \div 100
                     ELSE mediaCurrentTime
              t == CurrentTimeAt(now, mct)
              ema == KeyInvariantChromaSmoothing(chromaEMA, f.chroma)
              b == ApplyBassStability(
                     [bassPc |-> bassPc, bassCandidate |-> bassCandidate,
                      bassCandidateSince |-> bassCandidateSince], f.bass, now)
              d == DetectChord(ema, b.bassPc)
              h == ApplyChordHysteresis(
                     [lastChord |-> lastChord, candidateChord |-> candidateChord,
                      candidateSince |-> candidateSince, events |-> events],
                     d.chord, now, t)
              e == EstimateBPMFromEnergy(
                     [energyHistory |-> energyHistory, onsets |-> onsets,
                      lastOnsetTime |-> lastOnsetTime], f.energy, t)
          IN  /\ Len(h.events) <= MaxEvents
              /\ mediaCurrentTime' = mct
              /\ chromaEMA' = ema
              /\ bassPc' = b.bassPc
              /\ bassCandidate' = b.bassCandidate
              /\ bassCandidateSince' = b.bassCandidateSince
              /\ lastChord' = h.lastChord
              /\ candidateChord' = h.candidateChord
              /\ candidateSince' = h.candidateSince
              /\ events' = h.events
              /\ energyHistory' = e.energyHistory
              /\ onsets' = e.onsets
              /\ lastOnsetTime' = e.lastOnsetTime
              /\ result' = [chord |-> h.lastChord, confidence |-> d.confidence,
                            bpm |-> e.bpm]
              /\ run' = IF run.label = d.chord THEN run
                        ELSE [label |-> d.chord, start |-> now, last |-> lastChord]
              /\ bassSeen' = IF f.bass # NoPc THEN [any |-> TRUE, at |-> now]
                             ELSE bassSeen
              /\ UNCHANGED <<mode, bufferPlaying, bufferOffsetSec,
                             bufferStartCtxTime, bufferPlaybackRate, mediaPaused,
                             mediaPlaybackRate, bufferSource, endedPending>>

\* overrideEventAtIndex(index, chordText)
Override(index, chordText) ==
  /\ events' = OverrideEventAtIndex(events, index, chordText)
  /\ UNCHANGED <<wall, playback, chromaEMA, bass, hysteresis, bpmState, result, run>>
  /\ UNCHANGED <<bassSeen, settings, probe, app, sw>>

\* focusFilter.type after init(): init() builds the graph once.
InitFocusFilter == IF focusFilter = None THEN "allpass" ELSE focusFilter

\* The part of stop() that changes the playback state.  In buffer mode a
\* held source is stopped, which queues its ended event, and dropped.
StopEffect ==
  IF mode = "buffer"
  THEN [bufferPlaying |-> FALSE, bufferOffsetSec |-> 0,
        mediaPaused |-> mediaPaused, mediaCurrentTime |-> mediaCurrentTime,
        bufferSource |-> FALSE,
        endedPending |-> IF bufferSource THEN endedPending + 1
                         ELSE endedPending]
  ELSE IF mode = "stream"
  THEN [bufferPlaying |-> bufferPlaying, bufferOffsetSec |-> bufferOffsetSec,
        mediaPaused |-> TRUE, mediaCurrentTime |-> 0,
        bufferSource |-> bufferSource, endedPending |-> endedPending]
  ELSE [bufferPlaying |-> bufferPlaying, bufferOffsetSec |-> bufferOffsetSec,
        mediaPaused |-> mediaPaused, mediaCurrentTime |-> mediaCurrentTime,
        bufferSource |-> bufferSource, endedPending |-> endedPending]

\* loadFromFileArrayBuffer: init(), stop(), the media element emptied, the
\* decoded buffer installed, _resetAnalysisState().
EngineLoadFile ==
  /\ mode' = "buffer"
  /\ bufferPlaying' = FALSE
  /\ bufferOffsetSec' = 0
  /\ mediaPaused' = TRUE
  /\ mediaCurrentTime' = 0
  /\ mediaPlaybackRate' = 100
  /\ bufferSource' = StopEffect.bufferSource
  /\ endedPending' = StopEffect.endedPending
  /\ ResetAnalysisState(wall)
  /\ focusFilter' = InitFocusFilter
  /\ UNCHANGED <<wall, bufferStartCtxTime, bufferPlaybackRate, result, probe, sw>>

\* setSourceFromStream: init(), stop(), the buffer dropped, the media element
\* loaded with the new source, _resetAnalysisState().
LoadStream ==
  /\ mode' = "stream"
  /\ bufferPlaying' = FALSE
  /\ bufferOffsetSec' = 0
  /\ mediaPaused' = TRUE
  /\ mediaCurrentTime' = 0
  /\ mediaPlaybackRate' = 100
  /\ bufferSource' = StopEffect.bufferSource
  /\ endedPending' = StopEffect.endedPending
  /\ ResetAnalysisState(wall)
  /\ focusFilter' = InitFocusFilter
  /\ UNCHANGED <<wall, bufferStartCtxTime, bufferPlaybackRate, result, probe, app, sw>>

\* The part of play() that changes the playback state.  In buffer mode, when
\* not playing, a fresh source is created, held and started.
PlayEffect(playing, start) ==
  IF mode = "buffer"
  THEN IF playing THEN [bufferPlaying |-> playing, bufferStartCtxTime |-> start,
                        mediaPaused |-> mediaPaused,
                        bufferSource |-> bufferSource]
       ELSE [bufferPlaying |-> TRUE, bufferStartCtxTime |-> wall,
             mediaPaused |-> mediaPaused, bufferSource |-> TRUE]
  ELSE IF mode = "stream"
  THEN [bufferPlaying |-> playing, bufferStartCtxTime |-> start,
        mediaPaused |-> FALSE, bufferSource |-> bufferSource]
  ELSE [bufferPlaying |-> playing, bufferStartCtxTime |-> start,
        mediaPaused |-> mediaPaused, bufferSource |-> bufferSource]

\* A faulty pause() that keeps the stored offset instead of adding the time
\* played; C37 must reject it.
PauseEffectDropsElapsed ==
  IF mode = "buffer" /\ bufferPlaying
  THEN [bufferPlaying |-> FALSE,
        bufferOffsetSec |-> bufferOffsetSec,
        mediaPaused |-> mediaPaused,
        bufferSource |-> FALSE,
        endedPending |-> IF bufferSource THEN endedPending + 1
                         ELSE endedPending]
  ELSE [bufferPlaying |-> bufferPlaying, bufferOffsetSec |-> bufferOffsetSec,
        mediaPaused |-> IF mode = "none" THEN mediaPaused ELSE TRUE,
        bufferSource |-> bufferSource, endedPending |-> endedPending]

\* The part of pause() that changes the playback state.  In buffer mode while
\* playing, the held source is stopped, which queues its ended event, and
\* dropped.
PauseEffect ==
  IF mode = "buffer" /\ bufferPlaying
  THEN [bufferPlaying |-> FALSE,
        bufferOffsetSec |-> bufferOffsetSec
          + ((wall - bufferStartCtxTime) * bufferPlaybackRate) \div 100,
        mediaPaused |-> mediaPaused,
        bufferSource |-> FALSE,
        endedPending |-> IF bufferSource THEN endedPending + 1
                         ELSE endedPending]
  ELSE [bufferPlaying |-> bufferPlaying, bufferOffsetSec |-> bufferOffsetSec,
        mediaPaused |-> IF mode = "none" THEN mediaPaused ELSE TRUE,
        bufferSource |-> bufferSource, endedPending |-> endedPending]

EnginePlay ==
  LET p == PlayEffect(bufferPlaying, bufferStartCtxTime)
  IN  /\ bufferPlaying' = p.bufferPlaying
      /\ bufferStartCtxTime' = p.bufferStartCtxTime
      /\ mediaPaused' = p.mediaPaused
      /\ bufferSource' = p.bufferSource
      /\ UNCHANGED <<wall, mode, bufferOffsetSec, bufferPlaybackRate,
                     mediaCurrentTime, mediaPlaybackRate, endedPending,
                     analysis, result, run, bassSeen, settings, probe, sw>>

EnginePause ==
  LET p == PauseEffect
  IN  /\ bufferPlaying' = p.bufferPlaying
      /\ bufferOffsetSec' = p.bufferOffsetSec
      /\ mediaPaused' = p.mediaPaused
      /\ bufferSource' = p.bufferSource
      /\ endedPending' = p.endedPending
      /\ UNCHANGED <<wall, mode, bufferStartCtxTime, bufferPlaybackRate,
                     mediaCurrentTime, mediaPlaybackRate, analysis, result, run,
                     bassSeen, settings, probe, sw>>

EngineStop ==
  LET p == StopEffect
  IN  /\ bufferPlaying' = p.bufferPlaying
      /\ bufferOffsetSec' = p.bufferOffsetSec
      /\ mediaPaused' = p.mediaPaused
      /\ mediaCurrentTime' = p.mediaCurrentTime
      /\ bufferSource' = p.bufferSource
      /\ endedPending' = p.endedPending
      /\ UNCHANGED <<wall, mode, bufferStartCtxTime, bufferPlaybackRate,
                     mediaPlaybackRate, analysis, result, run, bassSeen,
                     settings, probe, sw>>

\* The engine's operations as called on their own: the page's timeline is not
\* touched.
Tick(dt, f) == EngineTick(dt, f) /\ UNCHANGED app

LoadFile == EngineLoadFile /\ UNCHANGED app

Play == EnginePlay /\ UNCHANGED app

Pause == EnginePause /\ UNCHANGED app

Stop == EngineStop /\ UNCHANGED app

\* setPlaybackRate(rate), r the clamped rate in percent: in buffer mode while
\* playing, pause(), the new rate, play(); play() runs to its end at once,
\* before the ended event of the source that pause() stopped is dispatched.
SetPlaybackRate(r) ==
  /\ IF mode = "buffer"
     THEN /\ bufferPlaybackRate' = r
          /\ bufferOffsetSec' = PauseEffect.bufferOffsetSec
          /\ bufferStartCtxTime' = IF bufferPlaying THEN wall ELSE bufferStartCtxTime
          /\ bufferSource' = IF bufferPlaying THEN TRUE ELSE bufferSource
          /\ endedPending' = PauseEffect.endedPending
          /\ UNCHANGED <<bufferPlaying, mediaPlaybackRate>>
     ELSE IF mode = "stream"
     THEN /\ mediaPlaybackRate' = r
          /\ UNCHANGED <<bufferPlaying, bufferOffsetSec, bufferStartCtxTime,
                         bufferPlaybackRate, bufferSource, endedPending>>
     ELSE UNCHANGED <<bufferPlaying, bufferOffsetSec, bufferStartCtxTime,
                      bufferPlaybackRate, mediaPlaybackRate, bufferSource,
                      endedPending>>
  /\ UNCHANGED <<wall, mode, mediaPaused, mediaCurrentTime, analysis, result, run,
                 bassSeen, settings, probe, app, sw>>

\* get duration in buffer mode: the length of the decoded buffer, in ms.  One
\* minute, longer than any run of Spec, SpecBpm and the other specifications
\* that play a file without letting it end.
Duration == 60000

\* The stored offset after src.onended snaps it: Math.min(this.duration,
\* offset + 0.0001).  A tenth of a millisecond is below the model's grain.
SnapOffset(offset) == IF offset < Duration THEN offset ELSE Duration

\* The playing buffer source reaches the end of its buffer by itself: it is
\* live no longer and its ended event is queued.
NaturalEnd ==
  /\ mode = "buffer" /\ bufferSource /\ bufferPlaying
  /\ CurrentTime >= Duration
  /\ bufferSource' = FALSE
  /\ endedPending' = endedPending + 1
  /\ UNCHANGED <<wall, mode, bufferPlaying, bufferOffsetSec, bufferStartCtxTime,
                 bufferPlaybackRate, mediaPaused, mediaCurrentTime,
                 mediaPlaybackRate, analysis, result, run, bassSeen, settings,
                 probe, app, sw>>

\* src.onended, dispatched for a source that pause() or stop() stopped or
\* that played to its end: it reads the flag of the engine, not whether its
\* own source is the held one.
OnEnded ==
  /\ endedPending > 0
  /\ endedPending' = endedPending - 1
  /\ bufferPlaying' = FALSE
  /\ bufferOffsetSec' = IF bufferPlaying THEN SnapOffset(bufferOffsetSec)
                        ELSE bufferOffsetSec
  /\ UNCHANGED <<wall, mode, bufferStartCtxTime, bufferPlaybackRate,
                 mediaPaused, mediaCurrentTime, mediaPlaybackRate,
                 bufferSource, analysis, result, run, bassSeen, settings,
                 probe, app, sw>>

\* setFocusEQ(m): without the filter (before init()) nothing; else the type
\* of the focus filter for the mode, allpass for any other mode.
SetFocusEQ(m) ==
  /\ focusFilter' = IF focusFilter = None THEN focusFilter
                    ELSE IF m = "bass" THEN "lowpass"
                    ELSE IF m = "mid" THEN "bandpass"
                    ELSE "allpass"
  /\ UNCHANGED <<wall, playback, analysis, result, run, bassSeen, config,
                 probe, app, sw>>

(* ------------------------------ inputs ------------------------------ *)

\* All magnitudes and the time-domain buffer zero: the whitened spectra are
\* zero, no bin passes the chroma gate, the HPS finds no peak, the energy is 0.
SilentFrame == [chroma |-> Zero12, bass |-> NoPc, energy |-> 0]

(* --------------------- the page: display timeline --------------------- *)

\* MIN_CHORD_DUR_S, in ms.
MinChordDurMs == 400

\* end: null of an open timeline entry (times are never negative).
NoEnd == -1

\* The entry pushOrMergeChord pushes.
NewBlock(chord, t) ==
  [start |-> t, end |-> NoEnd, chord |-> chord, overridden |-> FALSE,
   userChord |-> None]

\* A faulty finalizeLastEvent that keeps a closed entry however short; C32
\* must reject it.
FinalizeLastEventKeepsShort(tl, endTime) ==
  IF tl = <<>> \/ tl[Len(tl)].end # NoEnd THEN tl
  ELSE [tl EXCEPT ![Len(tl)].end = endTime]

\* finalizeLastEvent(endTime) on the timeline tl: nothing without an open last
\* entry; else the entry is closed at endTime, and popped when it lasted less
\* than MIN_CHORD_DUR_S.
FinalizeLastEvent(tl, endTime) ==
  IF tl = <<>> \/ tl[Len(tl)].end # NoEnd THEN tl
  ELSE LET start == tl[Len(tl)].start
           dur == IF endTime - start > 0 THEN endTime - start ELSE 0
       IN IF dur < MinChordDurMs THEN SubSeq(tl, 1, Len(tl) - 1)
          ELSE [tl EXCEPT ![Len(tl)].end = endTime]

\* A faulty pushOrMergeChord that never reopens the previous entry; C33 must
\* reject it.
PushOrMergeChordNoReopen(tl, chord, t) ==
  LET open == tl # <<>> /\ tl[Len(tl)].end = NoEnd
  IN IF open /\ ~tl[Len(tl)].overridden /\ tl[Len(tl)].chord = chord THEN tl
     ELSE Append(IF open THEN FinalizeLastEvent(tl, t) ELSE tl,
                 NewBlock(chord, t))

\* pushOrMergeChord(chord, t) on the timeline tl.
PushOrMergeChord(tl, chord, t) ==
  LET open == tl # <<>> /\ tl[Len(tl)].end = NoEnd
      last == tl[Len(tl)]
      shown == IF last.overridden THEN last.userChord ELSE last.chord
  IN IF open /\ ~last.overridden /\ shown = chord THEN tl
     ELSE LET closed == IF open THEN FinalizeLastEvent(tl, t) ELSE tl
              prev == closed[Len(closed)]
          IN IF /\ closed # <<>>
                /\ prev.end # NoEnd /\ ~prev.overridden
                /\ prev.chord = chord
                /\ prev.end - prev.start >= MinChordDurMs
             THEN [closed EXCEPT ![Len(closed)].end = NoEnd]
             ELSE Append(closed, NewBlock(chord, t))

\* renderTimeline draws the entry ev with the media clock at now: every closed
\* entry, and an open one that has lasted MIN_CHORD_DUR_S.
Rendered(ev, now) ==
  \/ ev.end # NoEnd
  \/ (IF now - ev.start > 0 THEN now - ev.start ELSE 0) >= MinChordDurMs

\* A click on the block of entry idx, drawn with the media clock at now, and
\* the text user (trimmed, not empty) typed into the prompt.
BlockClick(idx, user, now) ==
  /\ idx \in 1..Len(timelineEvents)
  /\ Rendered(timelineEvents[idx], now)
  /\ timelineEvents' = [timelineEvents EXCEPT ![idx].overridden = TRUE,
                                              ![idx].userChord = user]
  /\ UNCHANGED <<wall, playback, analysis, result, run, bassSeen, settings,
                 probe, lastStableChord, sw>>

\* loop(): one animation frame of the page.  engine.tick(), and a chord that
\* is neither the sentinel nor the last one shown goes to the timeline at the
\* engine's currentTime.
Loop(dt, f) ==
  /\ EngineTick(dt, f)
  /\ IF result'.chord # Sentinel /\ result'.chord # lastStableChord
     THEN /\ timelineEvents' = PushOrMergeChord(timelineEvents, result'.chord,
                                                CurrentTime')
          /\ lastStableChord' = result'.chord
     ELSE UNCHANGED app

\* loadLocalFile(file): the engine loads the file, then the timeline is reset.
LoadLocalFile ==
  /\ EngineLoadFile
  /\ timelineEvents' = <<>>
  /\ lastStableChord' = Sentinel

\* The Play button.
PlayClick == EnginePlay /\ UNCHANGED app

\* The Pause button: engine.pause(), then the open block is closed at the
\* engine's currentTime.
PauseClick ==
  /\ EnginePause
  /\ timelineEvents' = FinalizeLastEvent(timelineEvents, CurrentTime')
  /\ UNCHANGED lastStableChord

\* The Stop button: engine.stop(), then the open block is closed at the
\* engine's currentTime.
StopClick ==
  /\ EngineStop
  /\ timelineEvents' = FinalizeLastEvent(timelineEvents, CurrentTime')
  /\ UNCHANGED lastStableChord

\* pushOrMergeChord and finalizeLastEvent called on their own; the timeline
\* the call found and its arguments are kept in fnArg, the timeline it left
\* in fnOut.
CallPushOrMergeChord(chord, t) ==
  /\ timelineEvents' = PushOrMergeChord(timelineEvents, chord, t)
  /\ fnArg' = <<timelineEvents, chord, t>>
  /\ fnOut' = timelineEvents'
  /\ UNCHANGED <<wall, playback, analysis, result, run, bassSeen, settings,
                 lastStableChord, sw>>

CallFinalizeLastEvent(endTime) ==
  /\ timelineEvents' = FinalizeLastEvent(timelineEvents, endTime)
  /\ fnArg' = <<timelineEvents, endTime>>
  /\ fnOut' = timelineEvents'
  /\ UNCHANGED <<wall, playback, analysis, result, run, bassSeen, settings,
                 lastStableChord, sw>>

(* ------------------------- the service worker ------------------------- *)

\* A URL path is the sequence of its characters.
\* ASSETS, the paths cached at install.
Assets ==
  {<<"/">>,
   <<"/", "i", "n", "d", "e", "x", ".", "h", "t", "m", "l">>,
   <<"/", "s", "t", "y", "l", "e", ".", "c", "s", "s">>,
   <<"/", "a", "p", "p", ".", "j", "s">>,
   <<"/", "a", "u", "d", "i", "o", "-", "e", "n", "g", "i", "n", "e", ".", "j", "s">>,
   <<"/", "m", "a", "n", "i", "f", "e", "s", "t", ".", "j", "s", "o", "n">>}

\* "/api/stream"
StreamPrefix == <<"/", "a", "p", "i", "/", "s", "t", "r", "e", "a", "m">>

\* s.startsWith(p)
StartsWith(s, p) == Len(s) >= Len(p) /\ SubSeq(s, 1, Len(p)) = p

\* A faulty test that takes only the path /api/stream itself for a stream;
\* C34 must reject it.
IsStreamPathExact(pathname) == pathname = StreamPrefix

\* The test of the fetch listener for a proxied audio stream.
IsStreamPath(pathname) == StartsWith(pathname, StreamPrefix)

\* self.location.origin, and another origin.
SelfOrigin == "self"
Origins == {SelfOrigin, "other"}

\* No request (the install event).
NoRequest == [pathname |-> <<>>, method |-> None, origin |-> None]

\* caches.match(req): an entry of the cache for the same URL; only a GET
\* request matches.
CacheMatch(req) ==
  /\ req.method = "GET"
  /\ \E e \in swCache : e.origin = req.origin /\ e.pathname = req.pathname

\* The install event: cache.addAll(ASSETS) fetches and stores every asset.
SwInstall ==
  /\ swLast = <<>>
  /\ swCache' = swCache \cup
       {[pathname |-> a, method |-> "GET", origin |-> SelfOrigin] : a \in Assets}
  /\ swLast' = [event |-> "install", req |-> NoRequest, by |-> None,
                network |-> FALSE]
  /\ UNCHANGED <<wall, playback, analysis, result, run, bassSeen, settings,
                 probe, app>>

\* The fetch event for the request req.  A stream path: the listener returns
\* without respondWith and the browser fetches as without a worker.  Else the
\* cached response if there is one; else the response of fetch(req), stored
\* first when the request is a GET of the worker's own origin.
SwFetch(req) ==
  /\ swLast # <<>>
  /\ IF IsStreamPath(req.pathname)
     THEN /\ swLast' = [event |-> "fetch", req |-> req, by |-> "browser",
                        network |-> TRUE]
          /\ UNCHANGED swCache
     ELSE IF CacheMatch(req)
     THEN /\ swLast' = [event |-> "fetch", req |-> req, by |-> "cache",
                        network |-> FALSE]
          /\ UNCHANGED swCache
     ELSE /\ swLast' = [event |-> "fetch", req |-> req, by |-> "worker",
                        network |-> TRUE]
          /\ swCache' = IF req.method = "GET" /\ req.origin = SelfOrigin
                        THEN swCache \cup {req} ELSE swCache
  /\ UNCHANGED <<wall, playback, analysis, result, run, bassSeen, settings,
                 probe, app>>

\* Spec: the chord side.  Ticks 160 ms apart (two of them span chordStableMs
\* exactly), on frames without a bass peak.
DtSet == {160}
Frames == [chroma : ChromaSet, bass : {NoPc}, energy : {0}]
OverrideTexts == {"Dm"}
RateSet == {50}

\* No ended event is queued.  In Spec, SpecBpm and SpecConfig the event of a
\* stopped source is dispatched before the next operation or tick (SpecEnded
\* lets it be late).
Quiet == endedPending = 0

Next ==
  \/ \E dt \in DtSet, f \in Frames :
       /\ Quiet
       /\ wall + dt <= MaxTicks * 160
       /\ Tick(dt, f)
  \/ \E i \in -1..MaxEvents, txt \in OverrideTexts : Quiet /\ Override(i, txt)
  \/ Quiet /\ LoadFile
  \/ Quiet /\ LoadStream
  \/ Quiet /\ Play
  \/ Quiet /\ Pause
  \/ Quiet /\ Stop
  \/ \E r \in RateSet : Quiet /\ SetPlaybackRate(r)
  \/ OnEnded

Spec == Init /\ [][Next]_vars

\* SpecBass: the bass side.  One source is loaded, then ticks on a silent main
\* spectrum whose bass spectrum has no peak, a peak at C or a peak at G; two
\* ticks of 140 ms span bassStableMs exactly and one of 900 ms the release
\* time exactly.
BassDtSet == {140, 900}
BassFrames == [chroma : {Zero12}, bass : {NoPc, 0, 7}, energy : {0}]

NextBass ==
  \/ mode = "none" /\ LoadFile
  \/ \E dt \in BassDtSet, f \in BassFrames :
       /\ wall + dt <= MaxBassTime * 100
       /\ Tick(dt, f)

SpecBass == Init /\ [][NextBass]_vars

\* SpecSilent: one source is loaded, then every tick is on a silent frame, an
\* animation frame (20 ms) or 300 ms after the last.
SilentDtSet == {20, 300}

NextSilent ==
  \/ mode = "none" /\ LoadFile
  \/ \E dt \in SilentDtSet :
       /\ wall + dt <= MaxSilentTime * 100
       /\ Tick(dt, SilentFrame)

SpecSilent == Init /\ [][NextSilent]_vars

\* SpecClassify: the classifier and the label text.  One source is loaded; the
\* first ticks, 300 ms apart (more than bassStableMs), are on a silent main
\* spectrum with any bass peak or none, so that any pitch class can become the
\* stable bass; the last tick carries one of ClassifierChromas.
ClassifyDtSet == {300}
ClassifyBass == {NoPc} \cup (0..11)

NextClassify ==
  \/ mode = "none" /\ LoadFile
  \/ \E dt \in ClassifyDtSet, b \in ClassifyBass :
       /\ mode # "none"
       /\ wall + dt < MaxClassifyTicks * 300
       /\ Tick(dt, [chroma |-> Zero12, bass |-> b, energy |-> 0])
  \/ \E dt \in ClassifyDtSet, c \in ClassifierChromas :
       /\ mode # "none"
       /\ wall + dt = MaxClassifyTicks * 300
       /\ Tick(dt, [chroma |-> c, bass |-> NoPc, energy |-> 0])

SpecClassify == Init /\ [][NextClassify]_vars

\* SpecBpm: the BPM estimator.  A file is loaded and played; the lead-in is a
\* run of animation frames (20 ms apart), silent but for a possible click on
\* the first; then every tick carries silence or an energy spike, 100 ms
\* (inside the refractory time), 300 ms, 1000 ms or 8100 ms (beyond the onset
\* window) after the last.  After the first onset, stop() may rewind the
\* media clock, and play() starts it again.
BpmDtSet == {100, 300, 1000, 8100}
LeadInDtSet == {20}
BpmFrames == [chroma : {Zero12}, bass : {NoPc}, energy : {0, 1}]

NextBpm ==
  \/ mode = "none" /\ LoadFile
  \/ mode = "buffer" /\ ~bufferPlaying /\ Quiet /\ Play
  \/ mode = "buffer" /\ bufferPlaying /\ Len(onsets) = 1 /\ Stop
  \/ OnEnded
  \/ \E dt \in LeadInDtSet, f \in BpmFrames :
       /\ mode = "buffer" /\ bufferPlaying
       /\ Len(energyHistory) < WarmSamples
       /\ f.energy = 0 \/ energyHistory = <<>>
       /\ Tick(dt, f)
  \/ \E dt \in BpmDtSet, f \in BpmFrames :
       /\ mode = "buffer" /\ bufferPlaying
       /\ Len(energyHistory) >= WarmSamples
       /\ Len(energyHistory) < MaxBpmSamples
       /\ Tick(dt, f)

SpecBpm == Init /\ [][NextBpm]_vars

\* SpecRing: the energy ring.  One source is loaded, then animation frames
\* (20 ms apart) long enough to fill the ring of 90 and push beyond it; a frame
\* is silent or carries an energy spike.
RingDtSet == {20}

NextRing ==
  \/ mode = "none" /\ LoadFile
  \/ \E dt \in RingDtSet, f \in BpmFrames :
       /\ mode # "none"
       /\ wall + dt <= MaxRingTicks * 20
       /\ f.energy = 0 \/ SeqSum(energyHistory) < MaxRingSpikes
       /\ Tick(dt, f)

SpecRing == Init /\ [][NextRing]_vars

\* SpecConfig: construction and configuration.  The engine is constructed with
\* options from OptionSet: the default, an fftSize below 512, a negative chroma
\* time constant (the dwell options stay at the defaults the operators above
\* are written for); then every operation runs, setFocusEQ included.
OptionSet ==
  [fftSize : {4096, 256}, chromaTimeConstantMs : {220, -5},
   chordStableMs : {StableMs}, bassStableMs : {BassStableMs}]
FocusModes == {"bass", "mid", "off"}

InitConfig ==
  (\E o \in OptionSet : Constructed(o)) /\ NoCall /\ PageLoaded /\ NoWorker

NextConfig ==
  \/ \E dt \in DtSet, f \in Frames :
       /\ Quiet
       /\ wall + dt <= MaxConfigTicks * 160
       /\ Tick(dt, f)
  \/ \E i \in -1..MaxEvents, txt \in OverrideTexts : Quiet /\ Override(i, txt)
  \/ Quiet /\ LoadFile
  \/ Quiet /\ LoadStream
  \/ Quiet /\ Play
  \/ Quiet /\ Pause
  \/ Quiet /\ Stop
  \/ \E r \in RateSet : Quiet /\ SetPlaybackRate(r)
  \/ \E m \in FocusModes : Quiet /\ SetFocusEQ(m)
  \/ OnEnded

SpecConfig == InitConfig /\ [][NextConfig]_vars

\* SpecTriad: a steady C major triad.  A file is loaded and, before the first
\* tick, played or not; then every tick, 50 ms after the last, is on the
\* C major chroma, and either every tick has a bass peak at G or none has
\* (the first tick chooses).
TriadDt == 50
MaxTriadTicks == 40
TriadDtSet == {TriadDt}
TriadFrames == [chroma : {Tones({0, 4, 7})}, bass : {NoPc, 7}, energy : {0}]

NextTriad ==
  \/ mode = "none" /\ LoadFile
  \/ mode = "buffer" /\ run = NoRun /\ ~bufferPlaying /\ Play
  \/ \E dt \in TriadDtSet, f \in TriadFrames :
       /\ mode = "buffer"
       /\ run = NoRun \/ (f.bass # NoPc) = bassSeen.any
       /\ wall + dt <= MaxTriadTicks * TriadDt
       /\ Tick(dt, f)

SpecTriad == Init /\ [][NextTriad]_vars

\* SpecTempo: the octave fold.  A file is loaded and played; after a silent
\* lead-in of animation frames every tick carries silence or an energy spike,
\* 250 ms, 750 ms, 1500 ms or 1900 ms after the last: spikes at these
\* spacings give raw tempos of 240, 80, 40 and 31.6 BPM.
TempoDtSet == {250, 750, 1500, 1900}

NextTempo ==
  \/ mode = "none" /\ LoadFile
  \/ mode = "buffer" /\ ~bufferPlaying /\ energyHistory = <<>> /\ Play
  \/ \E dt \in LeadInDtSet :
       /\ mode = "buffer" /\ bufferPlaying
       /\ Len(energyHistory) < WarmSamples
       /\ Tick(dt, SilentFrame)
  \/ \E dt \in TempoDtSet, f \in BpmFrames :
       /\ mode = "buffer" /\ bufferPlaying
       /\ Len(energyHistory) >= WarmSamples
       /\ Len(energyHistory) < MaxBpmSamples
       /\ Tick(dt, f)

SpecTempo == Init /\ [][NextTempo]_vars

\* The call of the kernel on fnArg = <<chroma, shift>>: on the chroma, and on
\* the chroma turned by the shift.
CallKernel ==
  /\ fnOut = <<>>
  /\ fnOut' = <<NeighbourKernel(fnArg[1]),
                NeighbourKernel(Rotate(fnArg[1], fnArg[2]))>>
  /\ UNCHANGED <<wall, playback, analysis, result, run, bassSeen, settings,
                 fnArg, app, sw>>

\* SpecKernel: the smoothing kernel, on chroma vectors with a weight 2 on one
\* pitch class and a weight 1 on another, and on the classifier's chromas,
\* each with every rotation.
KernelChromas ==
  {[k \in 0..11 |-> IF k = a THEN 2 ELSE IF k = b THEN 1 ELSE 0] :
     a \in 0..11, b \in 0..11} \cup ClassifierChromas

InitKernel ==
  /\ Constructed(DefaultOptions)
  /\ fnArg \in KernelChromas \X (0..11)
  /\ fnOut = <<>>
  /\ PageLoaded /\ NoWorker

NextKernel == CallKernel

SpecKernel == InitKernel /\ [][NextKernel]_vars

\* The call of the whitener on fnArg = <<byte value, spectrum length>>: on the
\* flat spectrum of that length and value, with the window of the
\* configuration.
CallWhiten ==
  /\ fnOut = <<>>
  /\ fnOut' = ComputeWhitenedSpectrum([i \in 1..fnArg[2] |-> fnArg[1]],
                                      config.whitenWindow)
  /\ UNCHANGED <<wall, playback, analysis, result, run, bassSeen, settings,
                 fnArg, app, sw>>

\* SpecWhiten: the whitener on flat spectra: every byte value, and lengths
\* below the window, of the window and beyond it.
WhitenLengths == {1, 2, 26, 60}

InitWhiten ==
  /\ Constructed(DefaultOptions)
  /\ fnArg \in (0..255) \X WhitenLengths
  /\ fnOut = <<>>
  /\ PageLoaded /\ NoWorker

NextWhiten == CallWhiten

SpecWhiten == InitWhiten /\ [][NextWhiten]_vars

\* SpecEnded: the ended events of stopped buffer sources.  One file is loaded;
\* play, pause, stop and setPlaybackRate run in any order, animation frames
\* (20 ms, on silence) go by, and a queued ended event is dispatched at any
\* later moment, up to MaxEndedPending of them waiting.
MaxEndedPending == 2
MaxEndedTicks == 3
EndedDtSet == {20}

NextEnded ==
  \/ mode = "none" /\ LoadFile
  \/ mode = "buffer" /\ Play
  \/ mode = "buffer" /\ endedPending < MaxEndedPending /\ Pause
  \/ mode = "buffer" /\ endedPending < MaxEndedPending /\ Stop
  \/ \E r \in RateSet :
       /\ mode = "buffer" /\ endedPending < MaxEndedPending
       /\ SetPlaybackRate(r)
  \/ \E dt \in EndedDtSet :
       /\ wall + dt <= MaxEndedTicks * 20
       /\ Tick(dt, SilentFrame)
  \/ OnEnded

SpecEnded == Init /\ [][NextEnded]_vars

\* SpecToEnd: a file of Duration ms is loaded and played, paused and resumed at
\* any rate while long stretches of silence go by, until the source reaches
\* the end of the buffer; every ended event is dispatched before anything else
\* happens.
MaxToEndWall == 80000
ToEndDtSet == {10000, 20000}

NextToEnd ==
  \/ mode = "none" /\ LoadFile
  \/ mode = "buffer" /\ Quiet /\ Play
  \/ mode = "buffer" /\ Quiet /\ Pause
  \/ \E r \in RateSet : mode = "buffer" /\ Quiet /\ SetPlaybackRate(r)
  \/ \E dt \in ToEndDtSet :
       /\ Quiet /\ wall + dt <= MaxToEndWall
       /\ CurrentTime < Duration
       /\ Tick(dt, SilentFrame)
  \/ Quiet /\ NaturalEnd
  \/ OnEnded

SpecToEnd == Init /\ [][NextToEnd]_vars

\* SpecPage: the page around the engine.  A local file is loaded; the Play,
\* Pause and Stop buttons and the speed slider are used in any order, blocks of
\* the timeline are clicked and overridden, and every animation frame, 160 ms
\* after the last, carries a C major or an A minor chroma.
MaxPageTicks == 7
PageFrames == [chroma : ChromaSet \ {Zero12}, bass : {NoPc}, energy : {0}]

NextPage ==
  \/ mode = "none" /\ LoadLocalFile
  \/ mode = "buffer" /\ Quiet /\ PlayClick
  \/ mode = "buffer" /\ Quiet /\ PauseClick
  \/ mode = "buffer" /\ Quiet /\ StopClick
  \/ \E r \in RateSet : mode = "buffer" /\ Quiet /\ SetPlaybackRate(r)
  \/ \E dt \in DtSet, f \in PageFrames :
       /\ mode = "buffer" /\ Quiet
       /\ wall + dt <= MaxPageTicks * 160
       /\ Loop(dt, f)
  \/ \E idx \in 1..Len(timelineEvents), user \in OverrideTexts :
       Quiet /\ BlockClick(idx, user, CurrentTime)
  \/ OnEnded

SpecPage == Init /\ [][NextPage]_vars

\* SpecTimeline: pushOrMergeChord and finalizeLastEvent called in any order
\* with any of two chords and any of four times (300 ms, 400 ms and more
\* apart), forwards or backwards, and any drawn block overridden, on a
\* timeline of at most MaxTimeline entries.
MaxTimeline == 2
TimelineChords == {"C", "Am"}
TimelineTimes == {0, 300, 600, 1000}

NextTimeline ==
  \/ \E chord \in TimelineChords, t \in TimelineTimes :
       /\ Len(PushOrMergeChord(timelineEvents, chord, t)) <= MaxTimeline
       /\ CallPushOrMergeChord(chord, t)
  \/ \E endTime \in TimelineTimes : CallFinalizeLastEvent(endTime)
  \/ \E idx \in 1..Len(timelineEvents), user \in OverrideTexts,
         now \in TimelineTimes :
       BlockClick(idx, user, now)

SpecTimeline == Init /\ [][NextTimeline]_vars

\* SpecWorker: the service worker is installed, then fetch events arrive for
\* GET and POST requests to either origin: for assets, for /api/stream and
\* longer paths that begin with it, and for other paths.
StreamPaths ==
  {StreamPrefix, StreamPrefix \o <<"/", "x">>, StreamPrefix \o <<"e", "r">>}
OtherPaths ==
  {<<"/", "a", "p", "i", "/", "i", "n", "f", "o">>,
   <<"/", "a", "p", "i", "/", "s", "t", "r", "e", "a">>,
   <<"/", "i", "c", "o", "n", ".", "p", "n", "g">>}
Requests ==
  [pathname : {<<"/">>, <<"/", "a", "p", "p", ".", "j", "s">>} \cup StreamPaths \cup OtherPaths,
   method : {"GET", "POST"}, origin : Origins]

NextWorker ==
  \/ SwInstall
  \/ \E req \in Requests : SwFetch(req)

SpecWorker == Init /\ [][NextWorker]_vars

(* ------------------------------ claims ------------------------------ *)

\* C1.  Silent input: from fresh state, while every frame is silent, every
\* tick returns the sentinel chord, confidence 0 and no bpm, and the event log
\* stays empty.  (Stated for SpecSilent, whose ticks are all silent.)
C1_SilentKeepsDefaults ==
  /\ result.chord = Sentinel
  /\ result.confidence = 0
  /\ result.bpm = NoBpm
  /\ events = <<>>

\* C2.  Chord hysteresis dwell: lastChord changes to a label c only on a tick
\* whose input candidate is c, with c already the pending candidate, at the
\* end of an unbroken run of ticks with input c that spans chordStableMs or
\* more; any other input, lastChord itself included, starts a new run.
C2_PromotionOnlyAfterDwell ==
  [][(lastChord' # lastChord /\ lastChord' # Sentinel)
       => /\ wall' > wall
          /\ run'.label = lastChord'
          /\ candidateChord = lastChord'
          /\ run.label = lastChord'
          /\ wall' - run.start >= StableMs]_vars

\* A second chord was promoted after the first: a dwell that began after an
\* interruption has been served.
C2_Witness ==
  /\ Len(events) >= 2
  /\ lastChord = events[2].chord
  /\ run.label = lastChord
  /\ wall - run.start >= StableMs

\* C3.  Chord hysteresis bounded response: when the input candidate has been
\* the same label c on every tick from a tick t1 on, c differed from lastChord
\* at t1, and chordStableMs or more of wall time have passed since t1, the
\* tick returns c as the stable chord.
C3_BoundedResponse ==
  (mode # "none" /\ run.label # None /\ run.last # run.label
     /\ wall - run.start >= StableMs)
    => (result.chord = run.label /\ lastChord = run.label)

\* A run of exactly chordStableMs has just been answered.
C3_Witness ==
  /\ run.label # None
  /\ run.last # run.label
  /\ wall - run.start = StableMs
  /\ result.chord = run.label

\* C4.  No two consecutive events of the log carry the same chord.
C4_NoRepeatedChord ==
  \A i \in 1..(Len(events) - 1) : events[i].chord # events[i + 1].chord

\* Two events, both overridden with the same text.
C4_Witness ==
  /\ Len(events) >= 2
  /\ events[1].overridden /\ events[2].overridden
  /\ events[1].userChord = events[2].userChord

\* A step of one of the two source loads, which reset the log.
IsReset == LoadFile \/ LoadStream

\* C5.  The event log is append-only between two resets: no step removes or
\* reorders an event or alters the media time, chord or confidence of one; the
\* length never decreases; only a tick adds, and at most one event.
C5_AppendOnly ==
  [][IsReset
       \/ /\ Len(events') >= Len(events)
          /\ Len(events') <= Len(events) + 1
          /\ Len(events') > Len(events) => wall' > wall
          /\ \A i \in 1..Len(events) :
               /\ events'[i].t = events[i].t
               /\ events'[i].chord = events[i].chord
               /\ events'[i].conf = events[i].conf]_vars

\* Stop has rewound a buffer that had played (the first event was logged at a
\* media time above 0, the offset is 0 again) and the log is still there, with
\* a second event appended since.
C5_Witness ==
  /\ mode = "buffer"
  /\ Len(events) >= 2
  /\ events[1].t > 0
  /\ bufferOffsetSec = 0
  /\ ~bufferPlaying

\* C6.  Timeline events are in media-time order: the media time of the events
\* does not decrease with the index.
C6_MediaTimeOrder ==
  \A i \in 1..(Len(events) - 1) : events[i].t <= events[i + 1].t

\* C7.  overrideEventAtIndex(index, text) sets overridden and the user text of
\* events[index] and nothing else: no other field, no other event, not the
\* length, not lastChord or any hysteresis state; with no event at the index it
\* changes nothing.
C7_OverrideFrame ==
  [][\A i \in -1..MaxEvents, txt \in OverrideTexts :
       Override(i, txt)
         => /\ Len(events') = Len(events)
            /\ \A k \in 1..Len(events) :
                 events'[k] = IF k = i + 1
                              THEN [events[k] EXCEPT !.overridden = TRUE,
                                                     !.userChord = txt]
                              ELSE events[k]
            /\ UNCHANGED <<hysteresis, bass, chromaEMA, bpmState, result,
                           playback, wall>>]_vars

\* The second of two events is overridden, the first is not.
C7_Witness ==
  /\ Len(events) >= 2
  /\ ~events[1].overridden
  /\ events[2].overridden /\ events[2].userChord = "Dm"

\* C8.  Every promotion of a new stable chord appends exactly one event: the
\* media clock of the promotion tick, the new lastChord, confidence 1, not
\* overridden; a tick that does not promote appends none.
C8_PromotionAppendsEvent ==
  [][wall' > wall
       => IF lastChord' # lastChord
          THEN events' = Append(events,
                 [t |-> CurrentTime', chord |-> lastChord', conf |-> 1,
                  overridden |-> FALSE, userChord |-> None])
          ELSE events' = events]_vars

\* A promotion while the media clock was running: the last event carries the
\* stable chord and a media time above 0.
C8_Witness ==
  /\ events # <<>>
  /\ events[Len(events)].chord = lastChord
  /\ events[Len(events)].t > 0
  /\ events[Len(events)].t = CurrentTime

\* C9.  Bass stability: on a tick, bassPc changes to a detected pitch class pc
\* only when pc is the candidate, differs from bassPc, and the candidate has
\* stood for bassStableMs or more; a detection that differs from the candidate
\* replaces the candidate, restarts its timer and leaves bassPc unchanged.
C9_BassPromotion ==
  [][\A dt \in BassDtSet, f \in BassFrames :
       (mode # "none" /\ Tick(dt, f))
         => /\ (bassPc' # bassPc /\ bassPc' # NoPc)
                 => /\ f.bass = bassPc'
                    /\ f.bass = bassCandidate
                    /\ wall' - bassCandidateSince >= BassStableMs
            /\ (f.bass # NoPc /\ f.bass # bassCandidate)
                 => /\ bassCandidate' = f.bass
                    /\ bassCandidateSince' = wall'
                    /\ bassPc' = bassPc]_vars

\* G is the stable bass, promoted exactly bassStableMs after it became the
\* candidate, while C had been stable before.
C9_Witness ==
  /\ bassPc = 7
  /\ bassCandidate = 7
  /\ wall - bassCandidateSince = BassStableMs
  /\ lastChord = "C"

\* C10.  Bass release step: on a tick without a bass detection, bassPc becomes
\* none exactly when it is present and more than 900 ms have passed since
\* bassCandidateSince; otherwise bassPc, the candidate and its timer are all
\* unchanged; the tracker returns bassPc (the label is built from it).
C10_BassRelease ==
  [][\A dt \in BassDtSet, f \in BassFrames :
       (mode # "none" /\ f.bass = NoPc /\ Tick(dt, f))
         => LET due == bassPc # NoPc
                         /\ wall' - bassCandidateSince > BassReleaseMs
            IN  /\ due => bassPc' = NoPc
                /\ ~due => UNCHANGED bass
                /\ run'.label = DetectChord(chromaEMA', bassPc').chord]_vars

\* The stable bass G, which had reached the stable chord C/G, has been
\* released.
C10_Witness ==
  /\ bassPc = NoPc
  /\ bassCandidate = 7
  /\ lastChord = "C/G"
  /\ wall - bassCandidateSince > BassReleaseMs

\* C11.  Bass release timing: bassPc is released to none only after
\* bass_release_ms of missing detections: on every tick that releases it, no
\* tick of the preceding 900 ms of wall time carried a bass detection.
C11_ReleaseAfterMissingDetections ==
  [][(wall' > wall /\ bassPc # NoPc /\ bassPc' = NoPc)
       => (bassSeen.any => wall' - bassSeen.at >= BassReleaseMs)]_vars

\* C12.  Chord text form: the label is the root name followed by "" (major),
\* "m", "maj7", "m7", "7" (dom7) or "dim", and "/<bass name>" is appended if
\* and only if the stable bass is present and differs from the chord root.
C12_ChordTextForm ==
  run.label # None =>
    LET names == <<"C", "C#", "D", "D#", "E", "F", "F#", "G", "G#", "A", "A#", "B">>
        best == Templates[Best(chromaEMA)[2]]
        suffix == CASE best.quality = "maj"  -> ""
                    [] best.quality = "min"  -> "m"
                    [] best.quality = "maj7" -> "maj7"
                    [] best.quality = "min7" -> "m7"
                    [] best.quality = "dom7" -> "7"
                    [] best.quality = "dim"  -> "dim"
        text == names[best.root + 1] \o suffix
    IN  run.label = IF bassPc # NoPc /\ bassPc # best.root
                    THEN text \o "/" \o names[bassPc + 1]
                    ELSE text

\* An F# minor seventh over the stable bass A#, and the same root as bass
\* would give no slash.
C12_Witness ==
  /\ run.label = "F#m7/A#"
  /\ bassPc = 10
  /\ chromaEMA = Tones({6, 9, 1, 4})

\* For each chroma of the model, the first template (in the order root 0..11
\* outer, quality inner) among those of maximal score.
FirstOfMaximal ==
  {<<c, CHOOSE k \in 1..72 :
          /\ \A j \in 1..72 : ~ScoreGreater(c, j, k)
          /\ \A j \in 1..(k - 1) : ScoreGreater(c, k, j)>> :
     c \in ChromaSet \cup ClassifierChromas}

\* C13.  Classifier tie-breaking: the classifier returns a template of maximal
\* score, the first in the iteration order root (outer) by quality (inner)
\* when several share the maximal score.
C13_TieBreaking ==
  run.label # None =>
    LET k == (CHOOSE p \in FirstOfMaximal : p[1] = chromaEMA)[2]
    IN  /\ Best(chromaEMA)[2] = k
        /\ bassPc = NoPc =>
             run.label = FormatChord(Templates[k].root, Templates[k].quality)

\* The tones C and D# alone: C minor, C dim and G# major share the best score,
\* and C minor, the first of them, is the label.
C13_Witness ==
  /\ chromaEMA = Tones({0, 3})
  /\ bassPc = NoPc
  /\ run.label = "Cm"

\* What the fold and the rounding return for every median inter-onset
\* interval strictly between 0.20 s and 2.0 s, in steps of 1 ms.
BpmOfMedians == {BpmOfMedian(m) : m \in (IntervalLoMs + 1)..(IntervalHiMs - 1)}

\* C14.  BPM range: the bpm a tick returns is none or an integer in [70, 180],
\* for every median inter-onset interval in (0.20, 2.0) seconds.
C14_BpmRange ==
  /\ result.bpm = NoBpm \/ result.bpm \in BpmMin..BpmMax
  /\ BpmOfMedians \subseteq BpmMin..BpmMax

\* A tick has returned 100: the median interval 0.3 s gives 200, halved once.
C14_Witness ==
  /\ result.bpm = 100
  /\ Len(onsets) >= MinOnsets

\* The number of consecutive inter-onset intervals of q strictly between 0.20 s
\* and 2.0 s.
ValidIntervals(q) ==
  Cardinality({i \in 1..(Len(q) - 1) :
                 q[i + 1] - q[i] > IntervalLoMs /\ q[i + 1] - q[i] < IntervalHiMs})

\* C15.  BPM gating: a tick returns bpm none whenever, after it, the energy
\* ring holds fewer than 20 samples, or fewer than 4 onsets are retained, or
\* fewer than 3 consecutive inter-onset intervals lie strictly between 0.20 s
\* and 2.0 s; a tick that leaves fewer than 20 samples records no onset.
C15_BpmGating ==
  [][(wall' > wall /\ mode # "none")
       => /\ (\/ Len(energyHistory') < MinEnergySamples
              \/ Len(onsets') < MinOnsets
              \/ ValidIntervals(onsets') < MinIntervals)
               => result'.bpm = NoBpm
          /\ Len(energyHistory') < MinEnergySamples => onsets' = onsets]_vars

\* Four onsets are retained and the ring is long enough, but too few of the
\* intervals are in range: the tick returned none.
C15_Witness ==
  /\ Len(energyHistory) >= MinEnergySamples
  /\ Len(onsets) >= MinOnsets
  /\ ValidIntervals(onsets) < MinIntervals
  /\ result.bpm = NoBpm

\* C16.  Onset refractory: a tick records an onset only if the frame energy
\* exceeds mean + 2 std of the ring and the media time exceeds lastOnsetTime
\* by more than 0.12 s; any two consecutive retained onsets differ by more
\* than 0.12 s, so the list is strictly increasing.
C16_OnsetRefractory ==
  [][(wall' > wall /\ mode # "none")
       => /\ onsets' # onsets
               => /\ IsOnset(energyHistory'[Len(energyHistory')], energyHistory')
                  /\ CurrentTime' - lastOnsetTime > RefractoryMs
                  /\ onsets'[Len(onsets')] = CurrentTime'
                  /\ lastOnsetTime' = CurrentTime'
          /\ \A i \in 1..(Len(onsets') - 1) :
               onsets'[i + 1] - onsets'[i] > RefractoryMs]_vars

\* A frame above the threshold, 0.1 s of media time after the last onset, was
\* not recorded.
C16_Witness ==
  /\ Len(energyHistory) >= MinEnergySamples
  /\ IsOnset(energyHistory[Len(energyHistory)], energyHistory)
  /\ onsets # <<>>
  /\ CurrentTime - lastOnsetTime = 100
  /\ onsets[Len(onsets)] = lastOnsetTime

\* C17, as the spec states it.  After every tick no retained onset is more
\* than 8 s older than the media clock.
C17_OnsetsWithinWindow ==
  \A i \in 1..Len(onsets) : CurrentTime - onsets[i] <= OnsetWindowMs

\* C17, corrected.  The list is trimmed when an onset is recorded: after a
\* tick that records an onset no retained onset is more than 8 s older than
\* the media clock; a tick that records none leaves the list as it was.
C17_TrimmedWhenRecording ==
  [][(wall' > wall /\ mode # "none")
       => IF lastOnsetTime' # lastOnsetTime
          THEN \A i \in 1..Len(onsets') : CurrentTime' - onsets'[i] <= OnsetWindowMs
          ELSE onsets' = onsets]_vars

\* The onset of the 20th frame has been dropped: the only onset retained is
\* the one just recorded, more than 8 s of media time into the track.
C17_Witness ==
  /\ Len(energyHistory) > MinEnergySamples
  /\ energyHistory[MinEnergySamples - 1] = 0
  /\ energyHistory[MinEnergySamples] = 1
  /\ Len(onsets) = 1
  /\ onsets[1] = CurrentTime
  /\ CurrentTime > OnsetWindowMs

\* C18.  The energy ring holds at most 90 samples after any sequence of
\* ticks; a push on a full ring discards exactly the oldest sample, and a push
\* on a ring that is not full discards nothing.
C18_EnergyRing ==
  [][\A dt \in RingDtSet, f \in BpmFrames :
       (mode # "none" /\ Tick(dt, f))
         => /\ Len(energyHistory') <= EnergyHistorySize
            /\ energyHistory' =
                 IF Len(energyHistory) = EnergyHistorySize
                 THEN Tail(energyHistory) \o <<f.energy>>
                 ELSE Append(energyHistory, f.energy)]_vars

\* The ring is full and has discarded samples: a spike pushed after the first
\* frame is now its oldest sample.
C18_Witness ==
  /\ Len(energyHistory) = EnergyHistorySize
  /\ energyHistory[1] = 1
  /\ wall > EnergyHistorySize * 20

\* The configuration ranges of the spec, on the options the model carries:
\* fftSize a power of two of 512 or more; dwell and time-constant fields not
\* negative.
ValidConfig(c) ==
  /\ \E k \in 9..15 : c.fftSize = 2 ^ k
  /\ c.stableMs >= 0
  /\ c.bassStableMs >= 0
  /\ c.chromaTC >= 0
  /\ c.harmonicTC >= 0

\* C19.  Construction validates the configuration: a configuration outside
\* the ranges is rejected and yields no engine, so every engine there is has a
\* configuration inside the ranges.
C19_ConstructionValidates == ValidConfig(config)

\* C20.  Configuration is immutable after construction: no operation changes
\* the dwell times, the time constants, the whitening window, the frequency
\* bands, hpsHarmonics, the energy ring size or the template table.
C20_ConfigImmutable ==
  [][/\ config'.stableMs = config.stableMs
     /\ config'.bassStableMs = config.bassStableMs
     /\ config'.chromaTC = config.chromaTC
     /\ config'.harmonicTC = config.harmonicTC
     /\ config'.whitenWindow = config.whitenWindow
     /\ <<config'.fMin, config'.fMax>> = <<config.fMin, config.fMax>>
     /\ <<config'.bassMinHz, config'.bassMaxHz>> = <<config.bassMinHz, config.bassMaxHz>>
     /\ config'.hpsHarmonics = config.hpsHarmonics
     /\ config'.energyHistorySize = config.energyHistorySize
     /\ config'.templates = config.templates
     /\ config' = config]_vars

\* An engine built with a chroma time constant other than the default has
\* loaded a source, played at half rate, promoted a chord, had the event
\* overridden and its focus filter switched, and still has that time constant.
C20_Witness ==
  /\ config.chromaTC # DefaultOptions.chromaTimeConstantMs
  /\ mode = "buffer"
  /\ bufferPlaybackRate = 50
  /\ events # <<>>
  /\ events[1].overridden
  /\ focusFilter = "lowpass"

\* C21.  Reset: after _resetAnalysisState (run by both loads) lastChord and
\* the candidate are the sentinel, the stable and the candidate bass are none,
\* the chroma EMA is zero, the event log and the BPM history are empty, and
\* the configuration is what it was.  Every analysis field has the value the
\* constructor gave it, but for the bass dwell stamp, which is the time of the
\* reset as after the first load of a fresh engine; so the ticks that follow
\* run as they do after that first load.
C21_ResetClears ==
  [][IsReset =>
       /\ lastChord' = Sentinel /\ candidateChord' = Sentinel
       /\ candidateSince' = 0
       /\ bassPc' = NoPc /\ bassCandidate' = NoPc
       /\ bassCandidateSince' = wall
       /\ chromaEMA' = Zero12
       /\ events' = <<>>
       /\ energyHistory' = <<>> /\ onsets' = <<>>
       /\ lastOnsetTime' = InitLastOnsetMs
       /\ config' = config]_vars

\* A reset has followed a promotion: the last tick returned a chord, and the
\* engine is back at the sentinel with an empty log.
C21_Witness ==
  /\ result.chord # Sentinel
  /\ lastChord = Sentinel /\ candidateChord = Sentinel
  /\ events = <<>> /\ chromaEMA = Zero12
  /\ wall > 0

\* C22.  tick() before init() has built the analysers returns the default
\* result (chord sentinel, confidence 0, no bpm) and changes neither the
\* playback nor the analysis state: lastChord, the candidates, the event log,
\* the energy ring and the onsets are what they were.
C22_TickBeforeInit ==
  [][\A dt \in DtSet, f \in Frames :
       (mode = "none" /\ Tick(dt, f)) =>
         /\ result'.chord = Sentinel
         /\ result'.confidence = 0
         /\ result'.bpm = NoBpm
         /\ UNCHANGED <<playback, analysis>>]_vars

\* tick() has run on an engine without analysers.
C22_Witness ==
  /\ mode = "none" /\ wall > 0
  /\ result.chord = Sentinel /\ result.confidence = 0 /\ result.bpm = NoBpm
  /\ events = <<>> /\ energyHistory = <<>>

\* The buffer is paused part-way: it has played, pause() has stopped and
\* dropped the source, and the stored offset is past the start.
Paused ==
  /\ mode = "buffer" /\ ~bufferPlaying /\ ~bufferSource
  /\ bufferOffsetSec > 0

\* C23.  Pause: while playback is paused lastChord does not change and no
\* event is appended, whatever wall time goes by.  Stated for what a paused
\* engine reads, silence: a tick on a silent frame during a pause changes
\* neither lastChord nor the number of events.
C23_PauseFreezesChord ==
  [][\A dt \in DtSet :
       (Paused /\ Tick(dt, SilentFrame)) =>
         (lastChord' = lastChord /\ Len(events') = Len(events))]_vars

\* C24.  C major over a G bass: when every tick, 50 ms apart, classifies the
\* chroma as C major and detects the bass G, the stable chord is "C/G" by the
\* 40th tick, is not "C/G" before both bassStableMs and chordStableMs have
\* gone by since the first tick, and once "C/G" stays "C/G".
C24_SlashChord ==
  /\ [](bassSeen.any =>
          /\ lastChord = "C/G" =>
               (wall - TriadDt >= BassStableMs /\ wall - TriadDt >= StableMs)
          /\ wall >= 40 * TriadDt => lastChord = "C/G")
  /\ [][(bassSeen.any /\ lastChord = "C/G") => lastChord' = "C/G"]_vars

\* The 40th tick of the run with the G bass has returned "C/G".
C24_Witness ==
  /\ bassSeen.any /\ bassPc = 7
  /\ wall = 40 * TriadDt
  /\ lastChord = "C/G" /\ result.chord = "C/G"

\* The run without a bass peak, on a file that was never played (the media
\* clock stands at 0), after its first tick.
TriadHeld ==
  /\ mode = "buffer" /\ ~bufferPlaying /\ bufferOffsetSec = 0
  /\ run # NoRun /\ ~bassSeen.any

\* C25.  Pure triad: when every tick, 50 ms apart, has the candidate "C" and
\* no bass, with the media clock held at 0, the stable chord is not "C" before
\* chordStableMs has gone by since the first tick and is "C" from 700 ms after
\* it; after 30 ticks the log holds exactly one event, chord "C", media time 0.
C25_PureTriad ==
  TriadHeld =>
    /\ lastChord = "C" => wall - TriadDt >= StableMs
    /\ wall - TriadDt >= 700 => lastChord = "C"
    /\ wall = 30 * TriadDt =>
         (Len(events) = 1 /\ events[1].chord = "C" /\ events[1].t = 0)

\* The 30th tick of the held run: "C" is stable and logged once at time 0.
C25_Witness ==
  /\ TriadHeld /\ wall = 30 * TriadDt
  /\ lastChord = "C" /\ Len(events) = 1 /\ events[1].t = 0

\* The median the estimator takes of the kept intervals of the onset list q.
MedianInterval(q) ==
  LET intervals == Sorted(KeptIntervals(q))
  IN  intervals[(Len(intervals) \div 2) + 1]

\* The exponent of the fold for a median of m milliseconds: the number of
\* doublings that first bring 60 / median to 70 or more, or minus the number
\* of halvings that first bring it to 180 or less, or 0.
FoldExponent(m) ==
  IF 60000 < BpmMin * m
  THEN CHOOSE k \in 1..4 :
         60000 * (2 ^ k) >= BpmMin * m /\ 60000 * (2 ^ (k - 1)) < BpmMin * m
  ELSE IF 60000 > BpmMax * m
  THEN 0 - (CHOOSE j \in 1..4 :
              60000 <= BpmMax * m * (2 ^ j) /\ 60000 > BpmMax * m * (2 ^ (j - 1)))
  ELSE 0

\* round(60 / median * 2^k), median m in milliseconds.
FoldedBpm(m, k) ==
  IF k >= 0 THEN (2 * 60000 * (2 ^ k) + m) \div (2 * m)
  ELSE (2 * 60000 + m * (2 ^ (0 - k))) \div (2 * m * (2 ^ (0 - k)))

\* Whether consecutive entries of q are all d apart.
EvenlySpaced(q, d) == \A i \in 1..(Len(q) - 1) : q[i + 1] - q[i] = d

\* Whether the fold of the estimator agrees with round(60 / median * 2^k) on
\* every median strictly between 0.20 s and 2.0 s, in steps of 1 ms.
FoldAgrees ==
  \A m \in (IntervalLoMs + 1)..(IntervalHiMs - 1) :
    BpmOfMedian(m) = FoldedBpm(m, FoldExponent(m))

\* C26.  BPM octave folding: the bpm a tick returns is round(60 / median *
\* 2^k), k the exponent the doubling below 70 and the halving above 180 give;
\* the same holds of every median between 0.20 s and 2.0 s; onsets 1.5 s apart
\* (40 BPM) give 80, doubled exactly once.
C26_OctaveFold ==
  /\ result.bpm # NoBpm =>
       result.bpm = FoldedBpm(MedianInterval(onsets),
                              FoldExponent(MedianInterval(onsets)))
  /\ (Len(onsets) >= MinOnsets /\ EvenlySpaced(onsets, 1500)) =>
       (result.bpm = 80 /\ FoldExponent(1500) = 1)
  /\ FoldAgrees

\* Four onsets 1.5 s apart: the tick returned 80.
C26_Witness ==
  /\ Len(onsets) >= MinOnsets /\ EvenlySpaced(onsets, 1500)
  /\ result.bpm = 80

\* (best.score - 0.20) / 0.80 before the clamp, in thousandths, for the
\* chroma the classifier was given.
RawConfidence(chroma) == ((Best(chroma)[3] - 200) * 1000) \div 800

\* C27.  Confidence range: the confidence a tick returns lies in [0, 1]; it is
\* (best score - 0.20) / 0.80 where that lies in [0, 1], 0 where that is
\* negative and 1 where it is above 1.
C27_ConfidenceRange ==
  /\ result.confidence \in 0..1000
  /\ (mode # "none" /\ wall > 0) =>
       LET raw == RawConfidence(chromaEMA)
       IN  /\ raw < 0 => result.confidence = 0
           /\ raw > 1000 => result.confidence = 1000
           /\ raw \in 0..1000 => result.confidence = raw

\* A tick on the zero chroma: the best score is 0, the quotient -0.25, the
\* confidence returned 0.
C27_Witness ==
  /\ mode # "none" /\ wall > 0
  /\ chromaEMA = Zero12
  /\ RawConfidence(chromaEMA) < 0
  /\ result.confidence = 0

\* C28.  Kernel shift-invariance: for every 12-vector x and rotation, the
\* circular neighbour kernel (0.10, 0.12, 0.56, 0.12, 0.10 at offsets -2..2
\* mod 12) of the rotated x is exactly the rotated kernel of x.
C28_KernelShiftInvariant ==
  fnOut # <<>> => fnOut[2] = Rotate(fnOut[1], fnArg[2])

\* The kernel was applied to a chroma that is not flat, turned by a shift that
\* is not 0: the two outputs differ, and one is the other turned.
C28_Witness ==
  /\ fnOut # <<>>
  /\ fnArg[2] # 0
  /\ fnOut[1] # fnOut[2]
  /\ fnOut[1][0] = 56 * fnArg[1][0] + 12 * (fnArg[1][11] + fnArg[1][1])
                     + 10 * (fnArg[1][10] + fnArg[1][2])

\* C29.  Whitener on flat input: for every constant byte value 0..255 and
\* every spectrum length, the whitened output is the same at every bin and is
\* 1.0, within 1e-5, after the peak normalisation.
C29_FlatIsOne ==
  fnOut # <<>> =>
    \A i \in 1..Len(fnOut) :
      /\ fnOut[i] = fnOut[1]
      /\ fnOut[i] >= 1000000 - 10 /\ fnOut[i] <= 1000000 + 10

\* C30.  Buffer-source end callback: the onended handler of a source that
\* pause() or stop() stopped changes neither the playing flag nor the stored
\* offset, whenever it is dispatched: after a following play(), after the
\* pause-then-play of setPlaybackRate, or late.  (In the model every ended
\* event is that of a stopped source.)
C30_StoppedSourceEndIsInert ==
  [][OnEnded => (bufferPlaying' = bufferPlaying
                  /\ bufferOffsetSec' = bufferOffsetSec)]_vars


\* C31.  Natural end of a buffer: when the ended event of a source that played
\* to the end of its buffer is handled, the engine is not playing afterwards
\* and currentTime equals the duration.  (Stated for SpecToEnd, where the only
\* ended event handled with the playing flag set is that of a natural end.)
C31_NaturalEndAtDuration ==
  [][(OnEnded /\ bufferPlaying)
       => (~bufferPlaying' /\ CurrentTime' = Duration)]_vars

\* C32.  Display timeline minimum duration: no closed entry of the display
\* timeline has end - start below MIN_CHORD_DUR_S (400 ms).
C32_ClosedBlocksLast ==
  \A i \in 1..Len(timelineEvents) :
    timelineEvents[i].end # NoEnd
      => timelineEvents[i].end - timelineEvents[i].start >= MinChordDurMs

\* C32 witness: one closed block is left and the chord last put on the
\* timeline is another one, so the block of that chord was dropped.
C32_Witness ==
  /\ Len(timelineEvents) = 1
  /\ timelineEvents[1].end # NoEnd
  /\ timelineEvents[1].chord # lastStableChord

\* C33.  Display timeline merging: no two adjacent entries of the display
\* timeline that are both not overridden carry the same chord.
C33_NoEqualNeighbours ==
  \A i \in 1..(Len(timelineEvents) - 1) :
    (~timelineEvents[i].overridden /\ ~timelineEvents[i + 1].overridden)
      => timelineEvents[i].chord # timelineEvents[i + 1].chord

\* C33 witness: pushOrMergeChord(chord, t) found a closed block of chord
\* followed by an open block of another chord that had lasted less than
\* 400 ms at t; it dropped the short block and reopened the one before.
C33_Witness ==
  /\ Len(fnArg) = 3
  /\ LET tl == fnArg[1]
         n == Len(tl)
     IN /\ n >= 2
        /\ tl[n].end = NoEnd /\ tl[n].chord # fnArg[2]
        /\ fnArg[3] - tl[n].start < MinChordDurMs
        /\ tl[n - 1].end # NoEnd /\ ~tl[n - 1].overridden
        /\ tl[n - 1].chord = fnArg[2]
        /\ Len(timelineEvents) = n - 1
        /\ timelineEvents[n - 1].end = NoEnd
        /\ timelineEvents[n - 1].start = tl[n - 1].start

\* C34.  Service worker: a request whose path starts with /api/stream is not
\* answered from the cache and the fetch event leaves the cache as it was, and
\* no entry of the cache has such a path; any other request with a cached
\* match is answered from the cache without a network fetch; every entry of
\* the cache is a GET request of the worker's own origin.
C34_StreamNeverCached ==
  /\ [](\A e \in swCache :
         /\ ~StartsWith(e.pathname, StreamPrefix)
         /\ e.method = "GET" /\ e.origin = SelfOrigin)
  /\ [][\A req \in Requests :
          SwFetch(req) =>
            /\ StartsWith(req.pathname, StreamPrefix)
                 => (swLast'.by # "cache" /\ swCache' = swCache)
            /\ (~StartsWith(req.pathname, StreamPrefix) /\ CacheMatch(req))
                 => (swLast'.by = "cache" /\ ~swLast'.network)]_vars

\* C34 witness: a GET of the worker's own origin for another path than an
\* asset was fetched and stored, a request for a longer stream path has just
\* been left to the browser, and the cache holds no stream path.
C34_Witness ==
  /\ swLast # <<>>
  /\ swLast.event = "fetch" /\ swLast.by = "browser"
  /\ swLast.req.pathname # StreamPrefix
  /\ swLast.req.method = "GET" /\ swLast.req.origin = SelfOrigin
  /\ \E e \in swCache : e.pathname \notin Assets

\* C35.  Hysteresis/log consistency: lastChord is the sentinel exactly when
\* the event log is empty, and otherwise it is the chord of the most recent
\* event; no event records the sentinel.
C35_LastChordIsLastEvent ==
  /\ (lastChord = Sentinel) <=> (events = <<>>)
  /\ events # <<>> => events[Len(events)].chord = lastChord
  /\ \A i \in 1..Len(events) : events[i].chord # Sentinel

\* C35 witness: two chords have been promoted and recorded.
C35_Witness ==
  /\ Len(events) >= 2
  /\ events[Len(events)].chord = lastChord
  /\ events[1].chord # lastChord

\* C36.  Single live source: in buffer mode the playing flag is true exactly
\* when the engine holds a buffer source that has been started and not
\* stopped.
C36_PlayingIffLiveSource ==
  mode = "buffer" => (bufferPlaying <=> bufferSource)

\* C37.  Pause/resume position: in buffer mode currentTime is the same just
\* after pause() as just before it and the engine is not playing; play()
\* leaves currentTime where it was and the engine playing; stop() sets
\* currentTime to 0 and the engine to not playing; pause() and stop() leave
\* lastChord, the event log and all other analysis state unchanged.
C37_PauseKeepsPosition ==
  [][mode = "buffer" =>
       /\ Pause => /\ CurrentTime' = CurrentTime
                   /\ ~bufferPlaying'
                   /\ UNCHANGED analysis
       /\ Play => /\ CurrentTime' = CurrentTime
                  /\ bufferPlaying'
       /\ Stop => /\ CurrentTime' = 0
                  /\ ~bufferPlaying'
                  /\ UNCHANGED analysis]_vars

\* C37 witness: playback at the rate it started with has just been resumed
\* from a position after the start, and chords have been recorded before.
C37_Witness ==
  /\ mode = "buffer" /\ bufferPlaying
  /\ bufferStartCtxTime = wall
  /\ bufferPlaybackRate = 100
  /\ CurrentTime > 0
  /\ events # <<>>

\* C38.  Stop keeps a long block: when the Stop button is pressed while the
\* last block of the display timeline is open and has lasted at least 400 ms
\* of media time, the block stays in the timeline, closed, with an end not
\* earlier than its start.
C38_StopKeepsLongBlock ==
  [][(/\ StopClick
      /\ timelineEvents # <<>>
      /\ timelineEvents[Len(timelineEvents)].end = NoEnd
      /\ CurrentTime - timelineEvents[Len(timelineEvents)].start
           >= MinChordDurMs)
       => /\ Len(timelineEvents') = Len(timelineEvents)
          /\ timelineEvents'[Len(timelineEvents)].end # NoEnd
          /\ timelineEvents'[Len(timelineEvents)].end
               >= timelineEvents'[Len(timelineEvents)].start]_vars

\* C39.  Onset detection after rewind: on a tick during playback, more than
\* the refractory time of playback after the tick before it (so that no onset
\* was recorded during the preceding refractory time), a frame whose energy
\* exceeds the threshold is recorded as an onset, also after stop() has
\* rewound the media clock and play() has restarted it.
C39_OnsetAfterRewind ==
  [][\A dt \in BpmDtSet \cup LeadInDtSet, f \in BpmFrames :
       (/\ Tick(dt, f)
        /\ mode = "buffer" /\ bufferPlaying
        /\ CurrentTime' - CurrentTime > RefractoryMs
        /\ Len(energyHistory') >= MinEnergySamples
        /\ IsOnset(f.energy, energyHistory'))
         => /\ onsets' # <<>>
            /\ onsets'[Len(onsets')] = CurrentTime'
            /\ lastOnsetTime' = CurrentTime']_vars

====
